---- MODULE Spec2Model ----
(***************************************************************************)
(* A model of simple-serac: the S3 adapter (simple_s3.py), the backup      *)
(* database and packer (simple_database.py) and the driver (serac.py).     *)
(*                                                                         *)
(* Strings of the program are sequences of one-character strings, so that  *)
(* concatenation, startswith/endswith, slicing and the code-point order    *)
(* used by list.sort() are modelled by what they do.                       *)
(***************************************************************************)
EXTENDS Integers, Sequences, FiniteSets, TLC

VARIABLES
    remote,     \* the current objects under the URL's prefix: key -> object
    files,      \* SimpleS3.files once listed: key -> S3File or "Uploaded"
    listed,     \* FALSE while SimpleS3.files is None
    dry_run,    \* SimpleS3.dry_run
    lastCall,   \* record of the last upload_file call (history)
    remote0,    \* the remote objects when the session started (history)
    sessionUp,  \* keys uploaded by upload_file in this session (history)
    progress    \* the ProgressPercentage of an upload and the threads calling it

s3vars == <<remote, files, listed, dry_run, lastCall, remote0, sessionUp, progress>>

VARIABLES
    gen,        \* the FileNameGen of create_tars: [prefix, index]
    ids         \* the names next() returned in this run, in order (history)

genvars == <<gen, ids>>

VARIABLES
    cache,      \* the local cache directory: file name -> [kind, body]
    db,         \* BackupDatabase.db: name -> FileEntry (with its alt list)
    dbStatus    \* how the last read_database ended

dbvars == <<cache, db, dbStatus>>

VARIABLES
    sync,       \* download_dir's locals: [pc, localfiles, goodfiles, todo, left]
    held        \* every (file name, file) the cache directory ever held (history)

syncvars == <<sync, held>>

VARIABLES
    tree,       \* the input directory: name -> [sha, modified]
    minsize,    \* BackupDatabase.minsize
    now,        \* the wall clock, in seconds
    run,        \* main()'s position and the locals of create_tars
    last,       \* the tree of the previous run, if it was a completed backup (history)
    audit       \* the script run and its --verify, what the bucket holds beside
                \* its current objects, and the tallies of the remote check

runvars == <<tree, minsize, now, run, last, audit>>

vars == <<s3vars, genvars, dbvars, syncvars, runvars>>

(***************************************************************************)
(* Strings                                                                 *)
(***************************************************************************)

\* The characters the model uses, in code-point (ASCII) order.
Alphabet ==
    << "-", ".", "/", "0", "1", "2", "3", "4", "5", "6", "7", "8", "9",
       "a", "b", "c", "d", "e", "j", "n", "o", "p", "r", "s", "t", "v",
       "x", "y", "~" >>

Chars == { Alphabet[i] : i \in 1..Len(Alphabet) }

\* ord(c), up to an order-preserving renumbering.
Ord == [ c \in Chars |-> CHOOSE i \in 1..Len(Alphabet) : Alphabet[i] = c ]

\* s < t in Python's string order (code point by code point, a proper
\* prefix first).
RECURSIVE StrLess(_, _)
StrLess(s, t) ==
    IF t = <<>> THEN FALSE
    ELSE IF s = <<>> THEN TRUE
    ELSE IF Head(s) = Head(t) THEN StrLess(Tail(s), Tail(t))
    ELSE Ord[Head(s)] < Ord[Head(t)]

\* sorted(S) for a finite set of strings.
RECURSIVE SortedSeq(_)
SortedSeq(S) ==
    IF S = {} THEN <<>>
    ELSE LET m == CHOOSE a \in S : \A b \in S \ {a} : StrLess(a, b)
         IN  <<m>> \o SortedSeq(S \ {m})

\* s.startswith(p)
StartsWith(s, p) ==
    Len(p) <= Len(s) /\ SubSeq(s, 1, Len(p)) = p

\* s.endswith(p)
EndsWith(s, p) ==
    Len(p) <= Len(s) /\ SubSeq(s, Len(s) - Len(p) + 1, Len(s)) = p

\* s[n:]
DropFirst(s, n) == SubSeq(s, n + 1, Len(s))

\* s.removeprefix(p)
RemovePrefix(s, p) == IF StartsWith(s, p) THEN DropFirst(s, Len(p)) ELSE s

\* s.removesuffix(p)
RemoveSuffix(s, p) ==
    IF EndsWith(s, p) /\ p # <<>> THEN SubSeq(s, 1, Len(s) - Len(p)) ELSE s

Slash == << "/" >>
Tilde == << "~" >>
EmptyStr == << >>
DataDir == << "d", "a", "t", "a" >>
DbDir == << "d", "b" >>
ReportDir == << "r", "e", "p", "o", "r", "t" >>
ExtTar == << ".", "t", "a", "r" >>
ExtJson == << ".", "j", "s", "o", "n" >>
ExtCsv == << ".", "c", "s", "v" >>
STANDARD == "STANDARD"

\* addslash(s): strip one leading "/", enforce a trailing "/" unless empty.
addslash(s) ==
    LET t == RemovePrefix(s, Slash)
    IN  IF t # EmptyStr /\ ~EndsWith(t, Slash) THEN t \o Slash ELSE t

(***************************************************************************)
(* Archive names: flat_date() and FileNameGen                              *)
(***************************************************************************)

DigitChars == << "0", "1", "2", "3", "4", "5", "6", "7", "8", "9" >>

\* str(n) for n >= 0.
RECURSIVE Digits(_)
Digits(n) ==
    IF n < 10 THEN << DigitChars[n + 1] >>
    ELSE Digits(n \div 10) \o << DigitChars[(n % 10) + 1] >>

\* Zero padding to a minimum width, as the format specs 0<w> and %H do: a
\* longer number is not cut.
RECURSIVE ZeroPad(_, _)
ZeroPad(s, w) == IF Len(s) >= w THEN s ELSE ZeroPad(<< "0" >> \o s, w)

\* The width of the counter in an archive name: {index:06}.
IndexWidth == 6

\* The width of a session stamp.  strftime("%Y%m%d-%H%M%S") has a fixed
\* width; the model's clock counts seconds in StampWidth digits.
StampWidth == 2

\* flat_date() at clock value t.
flat_date(t) == ZeroPad(Digits(t), StampWidth)

\* The name FileNameGen.next() returns: f"{self.prefix}-{self.index:06}".
FormatName(prefix, index) ==
    prefix \o << "-" >> \o ZeroPad(Digits(index), IndexWidth)

NoGen == [ prefix |-> EmptyStr, index |-> 0 ]

(***************************************************************************)
(* The object store as SimpleS3 sees it                                    *)
(***************************************************************************)

\* The content of a file or object: a manifest (fmt "json"), an archive
\* (fmt "tar", data = its members), a report (fmt "csv") or anything else.
Body(fmt, version, data) == [ fmt |-> fmt, version |-> version, data |-> data ]

\* The byte size of a content.  Every entry of the model renders to the same
\* number of bytes, so the size counts the entries.
Size(body) == Len(body.data)

\* The MD5 of a content, taken as collision free.
Md5(body) == << "md5", body >>

\* The ETag S3 reports: the MD5 for a single-part upload, an opaque value
\* (never an MD5) for a multipart one.
ETag(obj) == IF obj.multipart THEN << "multipart", obj.body >> ELSE Md5(obj.body)

\* S3File.gen_from_s3 for one listed object.  The listing carries a
\* RestoreStatus for an object that is being or has been restored, which is
\* added to the class string.
gen_from_s3(obj) ==
    [ uploaded |-> FALSE, size |-> Size(obj.body),
      storageclass |->
          IF "RestoreStatus" \in DOMAIN obj
          THEN IF obj.RestoreStatus.IsRestoreInProgress
               THEN obj.cls \o " (restoring)"
               ELSE obj.cls \o " (restored until "
                       \o obj.RestoreStatus.RestoreExpiryDate \o ")"
          ELSE obj.cls,
      md5 |-> ETag(obj) ]

\* SimpleS3.list_files: the listing of the current objects, keyed by the
\* name after the prefix.
list_files(r) == [ k \in DOMAIN r |-> gen_from_s3(r[k]) ]

\* The value upload_file leaves in SimpleS3.files: the string "Uploaded".
Uploaded ==
    [ uploaded |-> TRUE, size |-> 0, storageclass |-> "", md5 |-> << >> ]

\* SimpleS3.files at the start of a call that lists when files is None.
FilesNow == IF listed THEN files ELSE list_files(remote)

\* The test upload_file makes before writing: `targetname in self.files`.
Refuses(fs, subdir, targetname) == targetname \in DOMAIN fs

\* The test the key itself would need (used by the claims, not by the code).
KeyOf(subdir, targetname) == addslash(subdir) \o targetname

\* The ways one upload_file call can end.
UploadOutcomes(fs, dry, subdir, targetname) ==
    IF Refuses(fs, subdir, targetname) THEN { "exists" }
    ELSE IF dry THEN { "dry" }
    ELSE { "ok", "error" }

\* A function with one more (or one replaced) mapping.
Put(f, k, v) == [ x \in DOMAIN f \cup {k} |-> IF x = k THEN v ELSE f[x] ]

\* The remote after an upload_file call that ended with `outcome`.
RemoteAfterUpload(r, subdir, targetname, cls, body, multipart, outcome) ==
    IF outcome = "ok"
    THEN Put(r, KeyOf(subdir, targetname),
             [ cls |-> cls, body |-> body, multipart |-> multipart ])
    ELSE r

\* SimpleS3.files after an upload_file call that ended with `outcome`.
FilesAfterUpload(fs, targetname, outcome) ==
    IF outcome = "ok" THEN Put(fs, targetname, Uploaded) ELSE fs

(***************************************************************************)
(* Manifests and the backup database                                       *)
(***************************************************************************)

\* DatabaseFile.DBVERSION
DBVERSION == 1

\* One entry of a manifest as serialised by DatabaseFileEncoder: the fields
\* name, size, modified, sha (db and alt are dropped).
JsonEntry(name, size, modified, sha) ==
    [ name |-> name, size |-> size, modified |-> modified, sha |-> sha ]

\* FileEntry.from_dict(d, db): the entry tagged with the manifest file it
\* was read from, with an empty alt list.
from_dict(d, j) ==
    [ name |-> d.name, size |-> d.size, modified |-> d.modified,
      sha |-> d.sha, db |-> j, alt |-> << >> ]

\* The loop body of read_database with an alt list that keeps only the last
\* occupant (mutant).
IngestKeepsLastOnly(d, fe) ==
    IF fe.name \in DOMAIN d
    THEN Put(d, fe.name, [ fe EXCEPT !.alt = << [ d[fe.name] EXCEPT !.alt = << >> ] >> ])
    ELSE Put(d, fe.name, fe)

\* The loop body of read_database for one entry: the occupant of the name,
\* if any, goes to the front of the new entry's alt list, followed by the
\* occupant's own alt list, which is then emptied.
Ingest(d, fe) ==
    IF fe.name \in DOMAIN d
    THEN Put(d, fe.name,
             [ fe EXCEPT !.alt = << [ d[fe.name] EXCEPT !.alt = << >> ] >>
                                   \o d[fe.name].alt ])
    ELSE Put(d, fe.name, fe)

\* The inner loop of read_database over jsondata["data"] of manifest file j.
RECURSIVE IngestData(_, _, _)
IngestData(d, j, data) ==
    IF data = << >> THEN d
    ELSE IngestData(Ingest(d, from_dict(Head(data), j)), j, Tail(data))

\* The outer loop of read_database over the sorted manifest files.  A file
\* that does not parse raises ValueError, a version other than DBVERSION
\* raises SystemError; self.db keeps what was ingested before.
RECURSIVE ReadFiles(_, _, _)
ReadFiles(d, dbfiles, dir) ==
    IF dbfiles = << >> THEN [ db |-> d, status |-> "ok" ]
    ELSE LET j == Head(dbfiles)
             body == dir[j].body
         IN  IF body.fmt # "json" THEN [ db |-> d, status |-> "ValueError" ]
             ELSE IF body.version # DBVERSION
                  THEN [ db |-> d, status |-> "SystemError" ]
             ELSE ReadFiles(IngestData(d, j, body.data), Tail(dbfiles), dir)

\* BackupDatabase.read_database over the cache directory dir.
read_database(dir) ==
    ReadFiles(<< >>, SortedSeq({ f \in DOMAIN dir : EndsWith(f, ExtJson) }), dir)

\* A regular file of the cache directory.
RegularFile(body) == [ kind |-> "file", body |-> body ]

(***************************************************************************)
(* download_dir: the sync of the local cache directory                     *)
(***************************************************************************)

\* A symbolic link in the cache directory.
LinkFile == [ kind |-> "link", body |-> Body("junk", 0, << >>) ]

\* os.rename(src, dst) that succeeded: the file is now under dst, and a file
\* that was under dst is gone.
Rename(dir, src, dst) ==
    [ n \in (DOMAIN dir \ {src}) \cup {dst} |->
        IF n = dst THEN dir[src] ELSE dir[n] ]

\* How os.rename(src, dst) can end: it replaces an existing dst on POSIX and
\* raises FileExistsError on Windows.
RenameOutcomes(dir, dst) ==
    IF dst \in DOMAIN dir THEN { "ok", "error" } ELSE { "ok" }

\* s3_client.download_file(bucket, objectname, localfile) that succeeded.
Download(dir, localfilebase, body) ==
    Put(dir, localfilebase, RegularFile(body))

\* How the download of key `file` to localdir/localfilebase can end.  The
\* cache directory has no subdirectories, so a name that is empty or holds a
\* "/" cannot be written.
DownloadOutcomes(r, file, localfilebase) ==
    IF \/ file \notin DOMAIN r
       \/ localfilebase = EmptyStr
       \/ \E i \in 1..Len(localfilebase) : localfilebase[i] = "/"
    THEN { "error" }
    ELSE { "ok", "error" }

\* download_dir's verdict on an existing local copy of a listed key: "link",
\* "size", "hash", or "good" (bad is None).
Bad(local, s3file) ==
    IF local.kind = "link" THEN "link"
    ELSE IF s3file.size # Size(local.body) THEN "size"
    ELSE IF s3file.md5 # Md5(local.body) THEN "hash"
    ELSE "good"

\* The leftover test that forgets the good files (mutant).
KeptInPlaceOnlyTilde(localfilebase, goodfiles) ==
    EndsWith(localfilebase, Tilde)

\* The leftover loop's test: a file that is good, or already a backup, stays.
KeptInPlace(localfilebase, goodfiles) ==
    localfilebase \in goodfiles \/ EndsWith(localfilebase, Tilde)

\* The keys download_dir visits, in the order of the listing.
SyncKeys(fs, subdir) ==
    SortedSeq({ file \in DOMAIN fs : StartsWith(file, addslash(subdir)) })

(***************************************************************************)
(* The packer: FileEntry.gen, create_tar, create_tars, generate_CSV        *)
(***************************************************************************)

\* The byte size of a file of the input tree, a function of its content.
ContentSize(sha) == IF sha = "h1" THEN 1 ELSE 2

\* simple_utils.list_files(indir): the sorted relative paths of the tree.
utils_list_files(t) == SortedSeq(DOMAIN t)

\* FileEntry.gen(indir, file) that succeeded, as it is later serialised.
FileEntry_gen(t, file) ==
    JsonEntry(file, ContentSize(t[file].sha), t[file].modified, t[file].sha)

\* The skip test of create_tars turned around: a file the database does not
\* know is skipped.
SkipsUnknown(d, fileentry) == fileentry.name \notin DOMAIN d

\* The skip test of create_tars: `dbfile and dbfile.sha == fileentry.sha`.
Skips(d, fileentry) ==
    /\ fileentry.name \in DOMAIN d
    /\ d[fileentry.name].sha = fileentry.sha

\* A flush test that fires at minsize already.
FlushesAtMin(size, min) == size >= min

\* The flush test of create_tars: `size > self.minsize`.
Flushes(size, min) == size > min

\* A last archive made whether or not a file is left for it.
LastArchiveAlways(tardb) == TRUE

\* The test for the last archive of create_tars: `len(tardb.data) > 0`.
LastArchive(tardb) == Len(tardb) > 0

\* A result of create_tar: how it ended ("ok", or the exception: "exists" for
\* FileExistsError, "error" for any other), what it left, and the keys it put.
TarResult(status, r, fs, dir, up) ==
    [ status |-> status, remote |-> r, files |-> fs, cache |-> dir, up |-> up ]

\* The size, in the model's units, from which upload_file stores an object
\* in several parts (multipart_threshold of the TransferConfig).
DEFAULT_CHUNKSIZE == 3

Multipart(body) == Size(body) >= DEFAULT_CHUNKSIZE

\* The keys an upload put on the remote.
Sent(subdir, targetname, outcome) ==
    IF outcome = "ok" THEN { KeyOf(subdir, targetname) } ELSE {}

\* How a call that made two uploads ended.
Ended(outcome) == IF outcome = "dry" THEN "ok" ELSE outcome

\* create_tar uploading the manifest in the class of the archive.
CreateTarManifestInClass(r, fs, dir, dry, data, basefilepath, storageclass) ==
    LET tarname == basefilepath \o ExtTar
        jsonname == basefilepath \o ExtJson
        tar == Body("tar", 0, data)
        json == Body("json", DBVERSION, data)
        dir1 == Put(dir, jsonname, RegularFile(json))
    IN  { TarResult("error", r, fs, dir, {}) }
        \cup UNION {
          LET r1 == RemoteAfterUpload(r, DataDir, tarname, storageclass, tar,
                                      Multipart(tar), o1)
              fs1 == FilesAfterUpload(fs, tarname, o1)
          IN  IF o1 \in { "exists", "error" }
              THEN { TarResult(o1, r, fs, dir, {}) }
              ELSE { TarResult(Ended(o2),
                        RemoteAfterUpload(r1, DbDir, jsonname, storageclass, json,
                                          Multipart(json), o2),
                        FilesAfterUpload(fs1, jsonname, o2), dir1,
                        Sent(DataDir, tarname, o1) \cup Sent(DbDir, jsonname, o2))
                     : o2 \in UploadOutcomes(fs1, dry, DbDir, jsonname) }
          : o1 \in UploadOutcomes(fs, dry, DataDir, tarname) }

\* create_tar uploading the manifest before the archive.
CreateTarManifestFirst(r, fs, dir, dry, data, basefilepath, storageclass) ==
    LET tarname == basefilepath \o ExtTar
        jsonname == basefilepath \o ExtJson
        tar == Body("tar", 0, data)
        json == Body("json", DBVERSION, data)
        dir1 == Put(dir, jsonname, RegularFile(json))
    IN  { TarResult("error", r, fs, dir, {}) }
        \cup UNION {
          LET r1 == RemoteAfterUpload(r, DbDir, jsonname, STANDARD, json,
                                      Multipart(json), o1)
              fs1 == FilesAfterUpload(fs, jsonname, o1)
          IN  IF o1 \in { "exists", "error" }
              THEN { TarResult(o1, r, fs, dir1, {}) }
              ELSE { TarResult(Ended(o2),
                        RemoteAfterUpload(r1, DataDir, tarname, storageclass, tar,
                                          Multipart(tar), o2),
                        FilesAfterUpload(fs1, tarname, o2), dir1,
                        Sent(DbDir, jsonname, o1) \cup Sent(DataDir, tarname, o2))
                     : o2 \in UploadOutcomes(fs1, dry, DataDir, tarname) }
          : o1 \in UploadOutcomes(fs, dry, DbDir, jsonname) }

\* create_tar(tardb, indir, basefilepath, size, storageclass): every way it
\* can end.  The archive is written and uploaded to data/; only then is the
\* manifest written into the cache directory and uploaded to db/.  An
\* exception at any step ends it there.
create_tar(r, fs, dir, dry, data, basefilepath, storageclass) ==
    LET tarname == basefilepath \o ExtTar
        jsonname == basefilepath \o ExtJson
        tar == Body("tar", 0, data)
        json == Body("json", DBVERSION, data)
        dir1 == Put(dir, jsonname, RegularFile(json))
    IN  { TarResult("error", r, fs, dir, {}) }
        \cup UNION {
          LET r1 == RemoteAfterUpload(r, DataDir, tarname, storageclass, tar,
                                      Multipart(tar), o1)
              fs1 == FilesAfterUpload(fs, tarname, o1)
          IN  IF o1 \in { "exists", "error" }
              THEN { TarResult(o1, r, fs, dir, {}) }
              ELSE { TarResult(Ended(o2),
                        RemoteAfterUpload(r1, DbDir, jsonname, STANDARD, json,
                                          Multipart(json), o2),
                        FilesAfterUpload(fs1, jsonname, o2), dir1,
                        Sent(DataDir, tarname, o1) \cup Sent(DbDir, jsonname, o2))
                     : o2 \in UploadOutcomes(fs1, dry, DbDir, jsonname) }
          : o1 \in UploadOutcomes(fs, dry, DataDir, tarname) }

\* file_to_array(fe) of generate_CSV: one row of the report.
file_to_array(fe) ==
    [ tarname |-> RemoveSuffix(fe.db, ExtJson) \o ExtTar, name |-> fe.name,
      size |-> fe.size, modified |-> fe.modified, sha |-> fe.sha ]

\* The rows of a report that left the alternates out.
RECURSIVE CsvRowsCurrentOnly(_, _)
CsvRowsCurrentOnly(d, order) ==
    IF order = << >> THEN << >>
    ELSE << file_to_array(d[Head(order)]) >> \o CsvRowsCurrentOnly(d, Tail(order))

\* The rows generate_CSV writes for the names in `order`: the current entry
\* of each name, then its alternates.
RECURSIVE CsvRows(_, _)
CsvRows(d, order) ==
    IF order = << >> THEN << >>
    ELSE LET fe == d[Head(order)]
         IN  << file_to_array(fe) >>
                \o [ i \in 1..Len(fe.alt) |-> file_to_array(fe.alt[i]) ]
                \o CsvRows(d, Tail(order))

(***************************************************************************)
(* The remote audit: remote_check and the bucket configuration checks      *)
(***************************************************************************)

\* x in q, for a list q.
In(q, x) == \E i \in 1..Len(q) : q[i] = x

\* [file for file in files if file.startswith(dir + "/") and
\* file.endswith(ext)], in the order of the listing.
ListedUnder(fs, dir, ext) ==
    SelectSeq(SortedSeq(DOMAIN fs),
              LAMBDA file : StartsWith(file, dir \o Slash) /\ EndsWith(file, ext))

\* "data/" + base + ".tar" where the suffix of the manifest was left on.
TarOfKeepsSuffix(jsonfile) ==
    DataDir \o Slash \o RemovePrefix(jsonfile, DbDir \o Slash) \o ExtTar

\* "data/" + base + ".tar" for a key db/<base>.json, and the reverse.
TarOf(jsonfile) ==
    DataDir \o Slash \o RemoveSuffix(RemovePrefix(jsonfile, DbDir \o Slash), ExtJson)
        \o ExtTar

JsonOf(tar) ==
    DbDir \o Slash \o RemoveSuffix(RemovePrefix(tar, DataDir \o Slash), ExtTar)
        \o ExtJson

\* A tally (warnings, errors).
Tally(w, e) == [ warnings |-> w, errors |-> e ]

\* A dict: the keys it holds, and the value of each key it may hold.
\* d.get(k) is truthy when k is held with a value other than 0.
Truthy(d, k) == k \in d.keys /\ d.val[k] # 0

\* A scan of the lifecycle rules that takes a rule with NoncurrentDays for
\* good even when it keeps some noncurrent versions.
RECURSIVE LifecycleScanKeepCountPasses(_, _, _)
LifecycleScanKeepCountPasses(prefix, rules, acc) ==
    IF rules = << >> THEN acc
    ELSE LET rule == Head(rules)
             filter == rule.Filter
             nve == rule.NoncurrentVersionExpiration
             aimu == rule.AbortIncompleteMultipartUpload
         IN  IF rule.Status # "Enabled"
             THEN LifecycleScanKeepCountPasses(prefix, Tail(rules), acc)
             ELSE IF /\ filter.keys # {}
                     /\ (Cardinality(filter.keys) > 1 \/ "Prefix" \notin filter.keys)
             THEN LifecycleScanKeepCountPasses(prefix, Tail(rules),
                                [ acc EXCEPT !.warnings = @ + 1 ])
             ELSE IF filter.keys # {} /\ ~StartsWith(prefix, filter.Prefix)
             THEN LifecycleScanKeepCountPasses(prefix, Tail(rules), acc)
             ELSE LifecycleScanKeepCountPasses(prefix, Tail(rules),
                    [ acc EXCEPT
                        !.noncurrentexpiration =
                            @ \/ (nve.keys # {} /\ Truthy(nve, "NoncurrentDays")),
                        !.abortmultipart =
                            @ \/ (aimu.keys # {} /\ Truthy(aimu, "DaysAfterInitiation")) ])

\* The scan of the lifecycle rules, with its warnings and its two flags.
RECURSIVE LifecycleScan(_, _, _)
LifecycleScan(prefix, rules, acc) ==
    IF rules = << >> THEN acc
    ELSE LET rule == Head(rules)
             filter == rule.Filter
             nve == rule.NoncurrentVersionExpiration
             aimu == rule.AbortIncompleteMultipartUpload
         IN  IF rule.Status # "Enabled"
             THEN LifecycleScan(prefix, Tail(rules), acc)
             ELSE IF /\ filter.keys # {}
                     /\ (Cardinality(filter.keys) > 1 \/ "Prefix" \notin filter.keys)
             THEN LifecycleScan(prefix, Tail(rules),
                                [ acc EXCEPT !.warnings = @ + 1 ])
             ELSE IF filter.keys # {} /\ ~StartsWith(prefix, filter.Prefix)
             THEN LifecycleScan(prefix, Tail(rules), acc)
             ELSE LifecycleScan(prefix, Tail(rules),
                    [ acc EXCEPT
                        !.noncurrentexpiration =
                            @ \/ (/\ nve.keys # {}
                                  /\ ~Truthy(nve, "NewerNoncurrentVersions")
                                  /\ Truthy(nve, "NoncurrentDays")),
                        !.abortmultipart =
                            @ \/ (aimu.keys # {} /\ Truthy(aimu, "DaysAfterInitiation")) ])

\* remote_check_bucket_configuration_lifecycle(s3, config)
remote_check_bucket_configuration_lifecycle(prefix, config) ==
    LET acc == LifecycleScan(prefix, config.lifecycle,
                  [ warnings |-> 0, noncurrentexpiration |-> FALSE,
                    abortmultipart |-> FALSE ])
    IN  Tally(acc.warnings,
              (IF acc.noncurrentexpiration THEN 0 ELSE 1)
                + (IF acc.abortmultipart THEN 0 ELSE 1))

\* The public access block part of remote_check_bucket_configuration: one
\* error per key of the block whose value is not true, or one error when
\* the configuration holds no (or an empty) block.
PublicAccessBlockErrors(pab) ==
    IF pab.present /\ pab.keys # {}
    THEN Cardinality({ key \in pab.keys : ~pab.val[key] })
    ELSE 1

\* remote_check_bucket_configuration(s3)
remote_check_bucket_configuration(prefix, config) ==
    LET l == IF config.versioning = "Enabled"
             THEN remote_check_bucket_configuration_lifecycle(prefix, config)
             ELSE Tally(0, 0)
    IN  Tally(l.warnings, l.errors + PublicAccessBlockErrors(config.public_access_block))

\* The files the last loop over the listing warns of: those that are neither
\* report/*.csv nor among jsonfiles and tarfiles.
Unexpected(fs, jsonfiles, tarfiles) ==
    SelectSeq(SortedSeq(DOMAIN fs),
              LAMBDA file :
                 /\ ~(StartsWith(file, ReportDir \o Slash) /\ EndsWith(file, ExtCsv))
                 /\ ~(In(jsonfiles, file) \/ In(tarfiles, file)))

\* remote_check(s3, verify, tarstorageclass) over the listing fs, the keys
\* with noncurrent versions, and the bucket configuration.
remote_check(fs, outdated, verify, tarstorageclass, prefix, config) ==
    LET jsonfiles == ListedUnder(fs, DbDir, ExtJson)
        tarfiles == ListedUnder(fs, DataDir, ExtTar)
        notar == SelectSeq(jsonfiles, LAMBDA jsonfile : ~In(tarfiles, TarOf(jsonfile)))
        nojson == SelectSeq(tarfiles, LAMBDA tar : ~In(jsonfiles, JsonOf(tar)))
        badclass == SelectSeq(tarfiles,
                              LAMBDA tar : fs[tar].storageclass # tarstorageclass)
        stray == Unexpected(fs, jsonfiles, tarfiles)
        old == IF verify THEN Cardinality(outdated) ELSE 0
        c == IF verify THEN remote_check_bucket_configuration(prefix, config)
             ELSE Tally(0, 0)
    IN  Tally(Len(nojson) + Len(badclass) + Len(stray) + old + c.warnings,
              Len(notar) + c.errors)

\* remoteCheck(s3) of simple-uploader.py: it raises SystemError at the first
\* manifest without its archive, and only prints its warnings.
remoteCheck(fs) ==
    LET jsonfiles == ListedUnder(fs, DbDir, ExtJson)
        tarfiles == ListedUnder(fs, DataDir, ExtTar)
    IN  IF \E i \in 1..Len(jsonfiles) : ~In(tarfiles, TarOf(jsonfiles[i]))
        THEN "SystemError" ELSE "ok"

\* A dict of numbers holding the keys K, each with the value 30.
Days(K, all) == [ keys |-> K, val |-> [ k \in all |-> IF k \in K THEN 30 ELSE 0 ] ]

\* The four flags of a public access block.
PabFlags ==
    { "BlockPublicAcls", "IgnorePublicAcls", "BlockPublicPolicy",
      "RestrictPublicBuckets" }

\* The prefix of the URL, after addslash.
UrlPrefix == addslash(<< "/", "p" >>)

\* A lifecycle rule and its filter.
Filter(K, prefix) == [ keys |-> K, Prefix |-> prefix ]

Rule(status, filter, nve, aimu) ==
    [ Status |-> status, Filter |-> filter, NoncurrentVersionExpiration |-> nve,
      AbortIncompleteMultipartUpload |-> aimu ]

NveKeys == { "NoncurrentDays", "NewerNoncurrentVersions" }

AimuKeys == { "DaysAfterInitiation" }

\* A public access block holding the flags K, those of T being true.
Pab(present, K, T) ==
    [ present |-> present, keys |-> K, val |-> [ k \in PabFlags |-> k \in T ] ]

\* A bucket that was never configured for --verify to look at.
NoConfig ==
    [ versioning |-> "Suspended", lifecycle |-> << >>,
      public_access_block |-> Pab(FALSE, {}, {}) ]

\* A bucket configured as the checks want it.
GoodConfig ==
    [ versioning |-> "Enabled",
      lifecycle |-> << Rule("Enabled", Filter({}, << >>),
                            Days({ "NoncurrentDays" }, NveKeys),
                            Days(AimuKeys, AimuKeys)) >>,
      public_access_block |-> Pab(TRUE, PabFlags, PabFlags) ]

\* A bucket whose only rule is filtered by a tag.
TagConfig ==
    [ GoodConfig EXCEPT !.lifecycle[1].Filter = Filter({ "Tag" }, << >>) ]

\* The default of --class, the storage class of the archives.
ColdClass == "DEEP_ARCHIVE"

\* serac.py run without --verify and without --class, before its remote
\* check.
NoAudit ==
    [ script |-> "serac", verify |-> FALSE, storageclass |-> ColdClass,
      outdated |-> {}, config |-> NoConfig,
      ran |-> FALSE, warnings |-> 0, errors |-> 0 ]

(***************************************************************************)
(* ProgressPercentage: the callback of an upload, called from the threads  *)
(* of the transfer                                                         *)
(***************************************************************************)

MaxThreads == 3
MaxCalls == 2
MaxAmount == 2

Threads == 1..MaxThreads

\* No thread holds the lock.
Free == 0

\* ProgressPercentage.__init__, with no thread in __call__: pc is where each
\* thread stands, amount its bytes_amount, loaded the value of _seen_so_far
\* it read for its `+=`; calls and reported count the calls and the bytes
\* they brought (history), written is what the last write showed.
NoProgress ==
    [ seen_so_far |-> 0, lock |-> Free,
      pc |-> [ t \in Threads |-> "out" ], amount |-> [ t \in Threads |-> 0 ],
      loaded |-> [ t \in Threads |-> 0 ], calls |-> [ t \in Threads |-> 0 ],
      reported |-> 0, written |-> 0 ]

\* What the steps of __call__ leave alone.
ProgressFrame ==
    UNCHANGED <<remote, files, listed, dry_run, lastCall, remote0, sessionUp,
                genvars, dbvars, syncvars, runvars>>

\* The transfer calls the callback from thread t with bytes_amount = n.
ProgressCall(t) ==
    /\ progress.pc[t] = "out"
    /\ progress.calls[t] < MaxCalls
    /\ \E n \in 1..MaxAmount :
         progress' = [ progress EXCEPT !.pc[t] = "enter", !.amount[t] = n,
                                       !.calls[t] = @ + 1, !.reported = @ + n ]
    /\ ProgressFrame

\* `with self._lock:` without the wait for the lock.
EnterUnlocked(p, t) ==
    /\ p.pc[t] = "enter"
    /\ progress' = [ p EXCEPT !.pc[t] = "load" ]

\* `with self._lock:` the thread goes in once no thread holds the lock.
Enter(p, t) ==
    /\ p.pc[t] = "enter"
    /\ p.lock = Free
    /\ progress' = [ p EXCEPT !.lock = t, !.pc[t] = "load" ]

ProgressEnter(t) == Enter(progress, t) /\ ProgressFrame

\* `self._seen_so_far += bytes_amount`: the attribute is read,
ProgressLoad(t) ==
    /\ progress.pc[t] = "load"
    /\ progress' = [ progress EXCEPT !.loaded[t] = progress.seen_so_far,
                                     !.pc[t] = "store" ]
    /\ ProgressFrame

\* and the sum is stored.
ProgressStore(t) ==
    /\ progress.pc[t] = "store"
    /\ progress' = [ progress EXCEPT
                       !.seen_so_far = progress.loaded[t] + progress.amount[t],
                       !.pc[t] = "write" ]
    /\ ProgressFrame

\* sys.stdout.write of the progress line and flush, then the lock is
\* released on leaving the `with` block.
ProgressWrite(t) ==
    /\ progress.pc[t] = "write"
    /\ progress' = [ progress EXCEPT
                       !.written = progress.seen_so_far,
                       !.lock = IF @ = t THEN Free ELSE @,
                       !.pc[t] = "out" ]
    /\ ProgressFrame

(***************************************************************************)
(* The variables of the parts a specification leaves alone                 *)
(***************************************************************************)

NoCall ==
    [ key |-> EmptyStr, targetname |-> EmptyStr, existed |-> FALSE,
      earlier |-> FALSE, outcome |-> "none", cls |-> "" ]

\* download_dir not entered; prev records how the call before this one ended.
NoSync ==
    [ pc |-> "idle", localfiles |-> << >>, goodfiles |-> {},
      todo |-> << >>, left |-> << >>, prev |-> "none" ]

S3Idle ==
    /\ remote = << >>
    /\ remote0 = << >>
    /\ files = << >>
    /\ listed = FALSE
    /\ dry_run = FALSE
    /\ lastCall = NoCall
    /\ progress = NoProgress
    /\ sessionUp = {}

GenIdle ==
    /\ gen = NoGen
    /\ ids = << >>

DbIdle ==
    /\ cache = << >>
    /\ db = << >>
    /\ dbStatus = "none"

SyncIdle ==
    /\ sync = NoSync
    /\ held = {}

NoRun ==
    [ pc |-> "idle", count |-> 0, indir |-> FALSE, inlist |-> << >>, pos |-> 1,
      tardb |-> << >>, size |-> 0, totalwritten |-> 0, totalskip |-> 0,
      faults |-> 0 ]

NoLast == [ ok |-> FALSE, tree |-> << >>, aborted |-> FALSE ]

RunIdle ==
    /\ tree = << >>
    /\ minsize = 0
    /\ now = 0
    /\ run = NoRun
    /\ last = NoLast
    /\ audit = NoAudit

(***************************************************************************)
(* One upload's callbacks, from several threads                            *)
(***************************************************************************)

ProgressInit ==
    /\ S3Idle
    /\ GenIdle
    /\ DbIdle
    /\ SyncIdle
    /\ RunIdle

ProgressNext ==
    \E t \in Threads :
       \/ ProgressCall(t)
       \/ ProgressEnter(t)
       \/ ProgressLoad(t)
       \/ ProgressStore(t)
       \/ ProgressWrite(t)

SpecProgress == ProgressInit /\ [][ProgressNext]_vars

\* The threads inside the `with` block.
Inside == { t \in Threads : progress.pc[t] \in { "load", "store", "write" } }

\* The bytes of the calls that have not yet stored their sum.
RECURSIVE Pending(_)
Pending(T) ==
    IF T = {} THEN 0
    ELSE LET t == CHOOSE t \in T : TRUE
         IN  (IF progress.pc[t] \in { "enter", "load", "store" }
              THEN progress.amount[t] ELSE 0) + Pending(T \ { t })

\* C24: no two callbacks are inside the update-and-write section at once and
\* no update is lost: _seen_so_far and the bytes of the calls still on their
\* way to the store add up to the bytes reported, so once every callback
\* has returned _seen_so_far is the sum of all bytes_amount.
C24_Serialized ==
    /\ Cardinality(Inside) <= 1
    /\ progress.seen_so_far + Pending(Threads) = progress.reported
    /\ (\A t \in Threads : progress.pc[t] = "out") =>
           progress.seen_so_far = progress.reported

\* Every thread made all its calls and is back out, some call having
\* brought more than one byte.
C24_Witness ==
    /\ \A t \in Threads : progress.pc[t] = "out" /\ progress.calls[t] = MaxCalls
    /\ progress.seen_so_far = progress.reported
    /\ progress.reported > MaxThreads * MaxCalls

\* A thread waits for the lock another thread holds.
C24_WitnessWaiting ==
    \E t, u \in Threads :
       progress.pc[t] = "enter" /\ progress.pc[u] = "store" /\ progress.lock = u

(***************************************************************************)
(* The steps of download_dir(localdir, subdir)                             *)
(***************************************************************************)

\* What download_dir leaves alone.
SyncFrame ==
    UNCHANGED <<remote, dry_run, lastCall, progress, remote0, sessionUp, genvars, db, dbStatus,
                runvars>>

Holding(dir) == { << n, dir[n] >> : n \in DOMAIN dir }

\* The head of download_dir: list if not listed, take os.listdir(localdir).
SyncStart(subdir) ==
    /\ sync.pc = "idle"
    /\ files' = FilesNow
    /\ listed' = TRUE
    /\ sync' = [ pc |-> "keys",
                 localfiles |-> SortedSeq(DOMAIN cache),
                 goodfiles |-> {},
                 todo |-> SyncKeys(FilesNow, subdir),
                 left |-> SortedSeq(DOMAIN cache),
                 prev |-> sync.prev ]
    /\ held' = held \cup Holding(cache)
    /\ UNCHANGED cache
    /\ SyncFrame

\* One pass of the loop over self.files, for the key `file` under subdir.
SyncKey(subdir) ==
    /\ sync.pc = "keys"
    /\ sync.todo # << >>
    /\ LET file == Head(sync.todo)
           localfilebase == DropFirst(file, Len(addslash(subdir)))
           present == \E i \in 1..Len(sync.localfiles) :
                         sync.localfiles[i] = localfilebase
           verdict == IF files[file].uploaded THEN "error"
                      ELSE IF present THEN Bad(cache[localfilebase], files[file])
                      ELSE "absent"
           aside == localfilebase \o Tilde
           rest == [ sync EXCEPT !.todo = Tail(@) ]
           failed == [ sync EXCEPT !.pc = "failed" ]
       IN  \/ /\ verdict = "good"
              /\ sync' = [ rest EXCEPT !.goodfiles = @ \cup { localfilebase } ]
              /\ UNCHANGED <<cache, held>>
           \/ /\ verdict = "error"
              /\ sync' = failed
              /\ UNCHANGED <<cache, held>>
           \/ /\ verdict \in { "link", "size", "hash", "absent" }
              /\ \E ro \in (IF verdict = "absent" THEN { "none" }
                            ELSE RenameOutcomes(cache, aside)),
                    dl \in DownloadOutcomes(remote, file, localfilebase) :
                    LET moved == IF ro = "ok"
                                 THEN Rename(cache, localfilebase, aside)
                                 ELSE cache
                    IN  IF ro = "error"
                        THEN /\ sync' = failed
                             /\ UNCHANGED <<cache, held>>
                        ELSE IF dl = "error"
                        THEN /\ sync' = failed
                             /\ cache' = moved
                             /\ held' = held \cup Holding(moved)
                        ELSE /\ sync' = [ rest EXCEPT
                                            !.goodfiles = @ \cup { localfilebase } ]
                             /\ cache' = Download(moved, localfilebase,
                                                  remote[file].body)
                             /\ held' = held \cup Holding(cache')
    /\ UNCHANGED <<files, listed>>
    /\ SyncFrame

\* One pass of the loop over the leftovers of os.listdir(localdir).
SyncLeftover ==
    /\ sync.pc = "keys"
    /\ sync.todo = << >>
    /\ sync.left # << >>
    /\ LET localfilebase == Head(sync.left)
           rest == [ sync EXCEPT !.left = Tail(@) ]
       IN  IF KeptInPlace(localfilebase, sync.goodfiles)
           THEN /\ sync' = rest
                /\ UNCHANGED cache
           ELSE \E ro \in RenameOutcomes(cache, localfilebase \o Tilde) :
                  IF ro = "error"
                  THEN /\ sync' = [ sync EXCEPT !.pc = "failed" ]
                       /\ UNCHANGED cache
                  ELSE /\ sync' = rest
                       /\ cache' = Rename(cache, localfilebase,
                                          localfilebase \o Tilde)
    /\ UNCHANGED <<files, listed, held>>
    /\ SyncFrame

\* download_dir returns.
SyncReturn ==
    /\ sync.pc = "keys"
    /\ sync.todo = << >>
    /\ sync.left = << >>
    /\ sync' = [ sync EXCEPT !.pc = "done" ]
    /\ UNCHANGED <<cache, files, listed, held>>
    /\ SyncFrame

(***************************************************************************)
(* SimpleS3 driven directly: any sequence of upload_file calls             *)
(***************************************************************************)

\* Keys the remote may hold when a session starts.
S3Keys ==
    { << "x" >>, DbDir \o Slash \o << "x" >>, DataDir \o Slash \o << "x" >>,
      DataDir \o Slash \o << "y" >> }

\* The arguments upload_file is called with.
S3Subdirs == { EmptyStr, DataDir, DbDir }
S3Names == { << "x" >>, << "y" >> }
S3Classes == { STANDARD, "DEEP_ARCHIVE" }

OldBody == Body("junk", 0, << >>)
NewBody == Body("junk", 1, << >>)

S3Init ==
    /\ \E K \in SUBSET S3Keys :
          remote = [ k \in K |->
                       [ cls |-> STANDARD, body |-> OldBody, multipart |-> FALSE ] ]
    /\ remote0 = remote
    /\ files = << >>
    /\ listed = FALSE
    /\ dry_run \in BOOLEAN
    /\ lastCall = NoCall
    /\ progress = NoProgress
    /\ sessionUp = {}
    /\ GenIdle
    /\ DbIdle
    /\ SyncIdle
    /\ RunIdle

\* SimpleS3.list_files(), called before anything is uploaded.
S3List ==
    /\ ~listed
    /\ files' = list_files(remote)
    /\ listed' = TRUE
    /\ UNCHANGED <<remote, dry_run, lastCall, progress, remote0, sessionUp>>
    /\ UNCHANGED <<genvars, dbvars, syncvars, runvars>>

\* SimpleS3.upload_file(filename, subdir, targetname, storageclass).
S3Upload(subdir, targetname, cls) ==
    LET fs == FilesNow
    IN  \E outcome \in UploadOutcomes(fs, dry_run, subdir, targetname) :
          /\ remote' = RemoteAfterUpload(remote, subdir, targetname, cls,
                                         NewBody, FALSE, outcome)
          /\ files' = FilesAfterUpload(fs, targetname, outcome)
          /\ listed' = TRUE
          /\ lastCall' =
                [ key |-> KeyOf(subdir, targetname), targetname |-> targetname,
                  existed |-> KeyOf(subdir, targetname) \in DOMAIN remote,
                  earlier |-> KeyOf(subdir, targetname) \in sessionUp,
                  outcome |-> outcome, cls |-> cls ]
          /\ sessionUp' =
                IF outcome = "ok"
                THEN sessionUp \cup { KeyOf(subdir, targetname) }
                ELSE sessionUp
          /\ UNCHANGED <<dry_run, remote0, progress>>
          /\ UNCHANGED <<genvars, dbvars, syncvars, runvars>>

S3Next ==
    \/ S3List
    \/ \E subdir \in S3Subdirs, targetname \in S3Names, cls \in S3Classes :
          S3Upload(subdir, targetname, cls)

SpecS3 == S3Init /\ [][S3Next]_vars

\* C1: upload_file never overwrites a current key: whenever the key
\* subdir/targetname is on the remote (listed, or uploaded earlier in the
\* session), the call raises FileExistsError and writes nothing.
C1_NeverOverwrites ==
    lastCall.existed => lastCall.outcome = "exists"

\* The part of C1 the code keeps: a (subdir, targetname) uploaded earlier in
\* the session is refused when uploaded again.
C1_SessionRepeatRefused ==
    lastCall.earlier => lastCall.outcome = "exists"

\* C8: in dry-run mode upload_file calls leave the remote and the listing
\* cache as they were before the run, and a call is refused only for a key of
\* the pre-run listing.
C8_DryRunFrame ==
    (dry_run /\ lastCall.outcome # "none") =>
        /\ remote = remote0
        /\ files = list_files(remote0)
        /\ (lastCall.outcome = "exists" => lastCall.key \in DOMAIN remote0)

\* The frame part of C8, which the code keeps.
C8_DryRunUnchanged ==
    (dry_run /\ lastCall.outcome # "none") =>
        /\ remote = remote0
        /\ files = list_files(remote0)
        /\ lastCall.outcome \in { "dry", "exists" }

(***************************************************************************)
(* FileNameGen alone: successive calls of next()                           *)
(***************************************************************************)

\* The most names one run of the generator model draws.
MaxIds == 4

\* The clock values a session can start at.
MaxClock == 3

\* Counter values the generator is taken up at: a fresh generator, and the
\* generator after as many calls of next() as brings it close to one more digit.
GenStartIndices == { 0, 8, 98, 998, 9998, 99998, 999998, 9999998 }

GenInit ==
    /\ \E t \in 1..MaxClock, i \in GenStartIndices :
          gen = [ prefix |-> flat_date(t), index |-> i ]
    /\ ids = << >>
    /\ S3Idle
    /\ DbIdle
    /\ SyncIdle
    /\ RunIdle

\* FileNameGen.next()
GenCall ==
    /\ Len(ids) < MaxIds
    /\ ids' = Append(ids, FormatName(gen.prefix, gen.index))
    /\ gen' = [ gen EXCEPT !.index = @ + 1 ]
    /\ UNCHANGED <<s3vars, dbvars, syncvars, runvars>>

GenNext == GenCall

SpecGen == GenInit /\ [][GenNext]_vars

\* C7: the names successive calls of next() return in one run are pairwise
\* distinct and strictly increasing in string order.
C7_StrictlyIncreasing ==
    \A i, j \in 1..Len(ids) : i < j => StrLess(ids[i], ids[j])

\* The part of C7 the code keeps: the names of one run are pairwise distinct.
C7_Distinct ==
    \A i, j \in 1..Len(ids) : i # j => ids[i] # ids[j]

\* ... and strictly increasing while the counter has at most six digits.
C7_IncreasingWithinWidth ==
    \A i, j \in 1..Len(ids) :
        (i < j /\ Len(ids[j]) = StampWidth + 1 + IndexWidth) =>
            StrLess(ids[i], ids[j])

(***************************************************************************)
(* read_database alone: any set of manifests in the cache directory        *)
(***************************************************************************)

FileNames == { << "a" >>, << "b" >> }
Shas == { "h1", "h2" }

\* The most manifest files the cache holds in the database model.
MaxManifests == 3

\* The manifest file names: one session, counters 0 .. MaxManifests - 1.
ManifestFile(i) == FormatName(flat_date(1), i) \o ExtJson

\* The entries a manifest of the database model may hold.
DbEntries ==
    { JsonEntry(<< "a" >>, 1, "t1", h) : h \in Shas }
        \cup { JsonEntry(<< "b" >>, 1, "t1", "h1") }

\* The manifests of the database model: up to two entries each, of the
\* version this program writes; one of another version; one that is not JSON.
DbManifests ==
    { Body("json", DBVERSION, d) :
        d \in { << >> } \cup { << e >> : e \in DbEntries }
                        \cup { << e, f >> : e \in DbEntries, f \in DbEntries } }
        \cup { Body("json", DBVERSION + 1, << JsonEntry(<< "a" >>, 1, "t1", "h1") >>),
               Body("junk", 0, << >>) }

DbInit ==
    /\ \E I \in SUBSET (0..(MaxManifests - 1)) :
          \E m \in [ I -> DbManifests ] :
             cache = [ f \in { ManifestFile(i) : i \in I } |->
                         RegularFile(m[CHOOSE i \in I : ManifestFile(i) = f]) ]
    /\ db = << >>
    /\ dbStatus = "none"
    /\ SyncIdle
    /\ S3Idle
    /\ GenIdle
    /\ RunIdle

\* backupdb.read_database()
DbRead ==
    /\ dbStatus = "none"
    /\ LET r == read_database(cache)
       IN  /\ db' = r.db
           /\ dbStatus' = r.status
    /\ UNCHANGED <<cache, s3vars, genvars, syncvars, runvars>>

DbNext == DbRead

SpecDb == DbInit /\ [][DbNext]_vars

\* Every (manifest file, entry) of the cache for one name, as tagged entries,
\* in the order of ascending manifest file name and of position in the file.
RECURSIVE EntriesOf(_, _, _)
EntriesOf(name, dbfiles, dir) ==
    IF dbfiles = << >> THEN << >>
    ELSE LET j == Head(dbfiles)
             mine == SelectSeq(dir[j].body.data, LAMBDA e : e.name = name)
         IN  [ i \in 1..Len(mine) |-> from_dict(mine[i], j) ]
                \o EntriesOf(name, Tail(dbfiles), dir)

Reverse(s) == [ i \in 1..Len(s) |-> s[Len(s) + 1 - i] ]

AllEntriesOf(name) ==
    EntriesOf(name, SortedSeq({ f \in DOMAIN cache : EndsWith(f, ExtJson) }), cache)

\* C6: after read_database, the current entry of every name followed by its
\* alt list is the list of all entries for that name, most recent first: the
\* current entry comes from the highest manifest holding the name, no prior
\* entry is lost or repeated, and names without an entry are absent.
C6_AltChain ==
    dbStatus = "ok" =>
        /\ DOMAIN db = { n \in FileNames : AllEntriesOf(n) # << >> }
        /\ \A n \in DOMAIN db :
              << [ db[n] EXCEPT !.alt = << >> ] >> \o db[n].alt
                  = Reverse(AllEntriesOf(n))

\* A name superseded twice: three manifests hold it and all three survive.
C6_Witness ==
    /\ dbStatus = "ok"
    /\ \E n \in DOMAIN db :
          /\ Len(db[n].alt) >= 2
          /\ db[n].alt[1].db # db[n].alt[2].db
          /\ db[n].db # db[n].alt[1].db

\* C15 (the part on the database): when read_database fails on a manifest of
\* another version, self.db does not hold the entries of the manifests read
\* before it.
C15_NoPartialState ==
    dbStatus = "SystemError" => db = << >>

\* The part of C15 the code keeps: the failure is raised, whatever was read
\* before the manifest of another version.
C15_VersionIsFatal ==
    (dbStatus # "none"
       /\ \E f \in DOMAIN cache : /\ cache[f].body.fmt = "json"
                                  /\ cache[f].body.version # DBVERSION)
      => dbStatus \in { "SystemError", "ValueError" }

\* A manifest of the cache directory holds the same name twice.
HasDuplicate ==
    \E f \in DOMAIN cache :
       \E i, j \in 1..Len(cache[f].body.data) :
          i # j /\ cache[f].body.data[i].name = cache[f].body.data[j].name

\* C16: a manifest holding the same name twice is rejected when the database
\* is loaded: read_database does not return normally.
C16_DuplicateRejected ==
    (dbStatus # "none" /\ HasDuplicate) => dbStatus # "ok"

(***************************************************************************)
(* download_dir alone: any cache directory against any remote db/          *)
(***************************************************************************)

\* The most sync runs of one behaviour of the sync model.
MaxSyncs == 2

ManifestA == Body("json", DBVERSION, << JsonEntry(<< "a" >>, 1, "t1", "h1") >>)
ManifestB == Body("json", DBVERSION, << JsonEntry(<< "a" >>, 1, "t1", "h2") >>)
ManifestEmpty == Body("json", DBVERSION, << >>)

Object(body, multipart) ==
    [ cls |-> STANDARD, body |-> body, multipart |-> multipart ]

\* The remotes of the sync model: each key absent or holding one of a few
\* objects.
SyncRemotes ==
    LET choice ==
          [ k \in { DbDir \o Slash \o << "x" >>, DbDir \o Slash \o << "x", "~" >>,
                    DbDir \o Slash, DataDir \o Slash \o << "x" >> } |->
              IF k = DbDir \o Slash \o << "x" >>
              THEN { Object(ManifestA, FALSE), Object(ManifestA, TRUE),
                     Object(ManifestB, FALSE) }
              ELSE IF k = DbDir \o Slash THEN { Object(ManifestEmpty, FALSE) }
              ELSE { Object(ManifestA, FALSE) } ]
    IN  UNION { { r \in [ K -> UNION { choice[k] : k \in K } ] :
                    \A k \in K : r[k] \in choice[k] } : K \in SUBSET DOMAIN choice }

\* The cache directories of the sync model.
SyncCaches ==
    LET choice ==
          [ n \in { << "x" >>, << "x", "~" >>, << "y" >> } |->
              IF n = << "x" >>
              THEN { RegularFile(ManifestA), RegularFile(ManifestB),
                     RegularFile(ManifestEmpty), LinkFile }
              ELSE IF n = << "y" >> THEN { RegularFile(ManifestA), LinkFile }
              ELSE { RegularFile(ManifestEmpty), RegularFile(ManifestA) } ]
    IN  UNION { { c \in [ N -> UNION { choice[n] : n \in N } ] :
                    \A n \in N : c[n] \in choice[n] } : N \in SUBSET DOMAIN choice }

SyncInit ==
    /\ remote \in SyncRemotes
    /\ remote0 = remote
    /\ cache \in SyncCaches
    /\ files = << >>
    /\ listed = FALSE
    /\ dry_run = FALSE
    /\ lastCall = NoCall
    /\ progress = NoProgress
    /\ sessionUp = {}
    /\ db = << >>
    /\ dbStatus = "none"
    /\ sync = NoSync
    /\ held = {}
    /\ ids = << >>
    /\ gen = [ prefix |-> EmptyStr, index |-> 1 ]
    /\ RunIdle

\* The next run of the program syncs again (gen.index counts the runs here).
SyncAgain ==
    /\ sync.pc \in { "done", "failed" }
    /\ gen.index < MaxSyncs
    /\ gen' = [ gen EXCEPT !.index = @ + 1 ]
    /\ sync' = [ NoSync EXCEPT !.prev = sync.pc ]
    /\ listed' = FALSE
    /\ files' = << >>
    /\ UNCHANGED <<remote, dry_run, lastCall, progress, remote0, sessionUp, ids, dbvars, held,
                   runvars>>

SyncNext ==
    \/ SyncStart(DbDir)
    \/ SyncKey(DbDir)
    \/ SyncLeftover
    \/ SyncReturn
    \/ SyncAgain

SpecSync == SyncInit /\ [][SyncNext]_vars

\* The file names of the cache directory that do not end in "~".
Current(dir) == { n \in DOMAIN dir : ~EndsWith(n, Tilde) }

\* The names of the current remote keys under db/.
RemoteDb == { DropFirst(k, 3) : k \in { k \in DOMAIN remote : StartsWith(k, DbDir \o Slash) } }

\* C9 as claimed: when download_dir completes, the files of the cache
\* directory not ending in "~" are exactly the current remote keys under db/.
C9_CacheIsRemoteDb ==
    sync.pc = "done" => Current(cache) = RemoteDb

\* C9 amended: when download_dir completes, every current remote key under
\* db/ is a file of the cache directory, and the files not ending in "~" are
\* exactly the remote keys under db/ that do not end in "~".
C9_CacheIsRemoteDbButTilde ==
    sync.pc = "done" =>
        /\ RemoteDb \subseteq DOMAIN cache
        /\ Current(cache) = { n \in RemoteDb : ~EndsWith(n, Tilde) }

\* A sync that completed after moving a leftover aside and downloading a
\* manifest.
C9_Witness ==
    /\ sync.pc = "done"
    /\ << "x" >> \in RemoteDb
    /\ << "y", "~" >> \in DOMAIN cache
    /\ \E h \in held : h[1] = << "y" >>
    /\ \E h \in held : h[1] = << "x" >> /\ h[2] # cache[<< "x" >>]

\* n followed by any number of "~".
RECURSIVE IsAsideOf(_, _)
IsAsideOf(m, n) ==
    \/ m = n
    \/ /\ Len(m) > Len(n)
       /\ EndsWith(m, Tilde)
       /\ IsAsideOf(SubSeq(m, 1, Len(m) - 1), n)

\* C10: download_dir never destroys cache content: every file the cache
\* directory held is still there, under its name or moved aside.
C10_NothingDestroyed ==
    \A h \in held : \E m \in DOMAIN cache : IsAsideOf(m, h[1]) /\ cache[m] = h[2]

\* download_dir is at a listed key under db/ whose local copy is a regular
\* file of the remote size, and whose ETag is not an MD5.
AtUnverifiableKey ==
    /\ sync.pc = "keys"
    /\ sync.todo # << >>
    /\ LET file == Head(sync.todo)
           localfilebase == DropFirst(file, Len(addslash(DbDir)))
       IN  /\ \E i \in 1..Len(sync.localfiles) : sync.localfiles[i] = localfilebase
           /\ localfilebase \in DOMAIN cache
           /\ cache[localfilebase].kind = "file"
           /\ ~files[file].uploaded
           /\ files[file].size = Size(cache[localfilebase].body)
           /\ files[file].md5[1] # "md5"

\* C11: a local cache file that is not a symlink, has the remote size, and
\* whose remote ETag is not an MD5 (multipart) is accepted as current: the
\* step of download_dir on it neither renames nor downloads, and counts it
\* as good.
C11_UnverifiableAccepted ==
    [][ AtUnverifiableKey =>
          /\ cache' = cache
          /\ DropFirst(Head(sync.todo), Len(addslash(DbDir))) \in sync'.goodfiles ]_vars

\* download_dir is in its loops, and the call before it completed.
Resyncing == sync.prev = "done" /\ sync.pc = "keys"

\* C26: download_dir is idempotent: a second call against an unchanged
\* remote, from the cache directory the first successful call left, renames
\* nothing and downloads nothing: the cache directory does not change.
C26_SecondSyncChangesNothing ==
    [][ Resyncing => cache' = cache ]_vars

\* C26 for the remotes whose manifests all carry an MD5 as ETag and have no
\* name ending in "~".
C26_SecondSyncChangesNothingIfMd5 ==
    [][ /\ Resyncing
        /\ \A k \in DOMAIN remote : ~remote[k].multipart /\ ~EndsWith(k, Tilde)
        => cache' = cache ]_vars

\* A second call completed after a first one that downloaded a manifest and
\* moved a leftover aside.
C26_SecondSyncDone ==
    /\ sync.prev = "done"
    /\ sync.pc = "done"
    /\ << "x" >> \in RemoteDb
    /\ << "y", "~" >> \in DOMAIN cache
    /\ \E h \in held : h[1] = << "x" >> /\ h[2] # cache[<< "x" >>]

(***************************************************************************)
(* The program: successive runs of main()                                  *)
(***************************************************************************)

\* The most runs of one behaviour.
MaxRuns == 3

\* The largest minimum archive size.
MaxMinSize == 1

\* The most injected failures (exceptions of the file system or of the
\* transport) of one behaviour.
MaxFaults == 1

TreeFile(sha, modified) == [ sha |-> sha, modified |-> modified ]

\* The input trees: file a is absent, as first written, touched, or edited;
\* file b is absent or present.
Trees ==
    { t \in UNION { [ N -> [ sha : Shas, modified : { "t1", "t2" } ] ]
                    : N \in SUBSET FileNames } :
        /\ << "a" >> \in DOMAIN t =>
             t[<< "a" >>] \in { TreeFile("h1", "t1"), TreeFile("h1", "t2"),
                                TreeFile("h2", "t2") }
        /\ << "b" >> \in DOMAIN t => t[<< "b" >>] = TreeFile("h1", "t1") }

\* A tree of three files, the first of them the larger.
ThreeFiles ==
    [ n \in FileNames \cup { << "c" >> } |->
        IF n = << "a" >> THEN TreeFile("h2", "t2") ELSE TreeFile("h1", "t1") ]

\* The trees the run after `count` runs may find; the tree of three files
\* is given to the last run that is followed.
TreesOf(count) == IF count = MaxRuns - 1 THEN Trees \cup { ThreeFiles } ELSE Trees

\* The command lines: a backup, a backup with --dry-run, no input directory.
Modes == { "backup", "dry", "sync" }

Init ==
    /\ remote = << >>
    /\ remote0 = << >>
    /\ files = << >>
    /\ listed = FALSE
    /\ dry_run = FALSE
    /\ lastCall = NoCall
    /\ progress = NoProgress
    /\ sessionUp = {}
    /\ GenIdle
    /\ DbIdle
    /\ SyncIdle
    /\ tree = << >>
    /\ minsize \in 0..MaxMinSize
    /\ now = 0
    /\ run = NoRun
    /\ last = NoLast
    /\ audit = NoAudit

\* An exception that is swallowed: the step is passed over.
FaultPassedOver(r) ==
    /\ r.faults < MaxFaults
    /\ run' = [ r EXCEPT !.pos = @ + 1, !.faults = @ + 1 ]

\* An exception of the environment, within the bound on them.
Fault(r) ==
    /\ r.faults < MaxFaults
    /\ run' = [ r EXCEPT !.pc = "failed", !.faults = @ + 1 ]

\* The seconds the clock can show when a run starts: the second of the run
\* before it, or a later one.
Seconds ==
    { t \in { now, now + 1 } : t <= MaxClock /\ (run.count = 0 => t > now) }

\* main() starts: the arguments are parsed and SimpleS3 is constructed; the
\* tree is what it is now.
RunStart ==
    /\ run.pc \in { "idle", "done", "failed" }
    /\ run.count < MaxRuns
    /\ now' \in Seconds
    /\ \E mode \in Modes :
         /\ audit.script = "uploader" => mode = "backup"
         /\ dry_run' = (mode = "dry")
         /\ tree' \in IF mode = "sync" THEN { tree } ELSE TreesOf(run.count)
         /\ run' = [ NoRun EXCEPT !.pc = "check", !.count = run.count + 1,
                                  !.indir = (mode # "sync"), !.faults = run.faults ]
    /\ last' = IF run.pc = "done" /\ run.indir /\ ~dry_run
               THEN [ ok |-> TRUE, tree |-> tree, aborted |-> FALSE ]
               ELSE [ NoLast EXCEPT !.aborted = (run.pc = "failed" /\ tree' = tree) ]
    /\ files' = << >>
    /\ listed' = FALSE
    /\ remote0' = remote
    /\ sessionUp' = {}
    /\ lastCall' = NoCall
    /\ UNCHANGED progress
    /\ sync' = NoSync
    /\ db' = << >>
    /\ dbStatus' = "none"
    /\ gen' = NoGen
    /\ ids' = << >>
    /\ audit' = [ audit EXCEPT !.ran = FALSE, !.warnings = 0, !.errors = 0 ]
    /\ UNCHANGED <<remote, cache, held, minsize>>

\* remote_check(s3, verify, storageclass) lists the remote (list_versions
\* leaves self.files alone) and returns its tallies, which main() prints
\* before it goes on; or the listing fails.
RunCheck ==
    /\ run.pc = "check"
    /\ audit.script = "serac"
    /\ \/ /\ files' = IF audit.verify THEN files ELSE list_files(remote)
          /\ listed' = IF audit.verify THEN listed ELSE TRUE
          /\ LET t == remote_check(list_files(remote), audit.outdated, audit.verify,
                                   audit.storageclass, UrlPrefix, audit.config)
             IN  audit' = [ audit EXCEPT !.ran = TRUE, !.warnings = t.warnings,
                                         !.errors = t.errors ]
          /\ run' = [ run EXCEPT !.pc = "sync" ]
       \/ /\ Fault(run)
          /\ UNCHANGED <<files, listed, audit>>
    /\ UNCHANGED <<remote, dry_run, lastCall, progress, remote0, sessionUp, genvars, dbvars,
                   syncvars, tree, minsize, now, last>>

\* s3.download_dir(dbcachedir, "db"), step by step.
RunSync ==
    /\ run.pc = "sync"
    /\ \/ SyncStart(DbDir)
       \/ SyncKey(DbDir)
       \/ SyncLeftover
       \/ SyncReturn

\* download_dir raised: main() ends.
RunSyncFailed ==
    /\ run.pc = "sync"
    /\ sync.pc = "failed"
    /\ run' = [ run EXCEPT !.pc = "failed" ]
    /\ sync' = NoSync
    /\ UNCHANGED <<s3vars, genvars, dbvars, held, tree, minsize, now, last, audit>>

\* backupdb.read_database(), then the return when no input directory is
\* given, else list_files(indir) and the head of create_tars.
RunRead ==
    /\ run.pc = "sync"
    /\ sync.pc = "done"
    /\ audit.script = "serac"
    /\ LET r == read_database(cache)
       IN  /\ db' = r.db
           /\ dbStatus' = r.status
           /\ IF r.status # "ok"
              THEN /\ run' = [ run EXCEPT !.pc = "failed" ]
                   /\ UNCHANGED gen
              ELSE IF ~run.indir
              THEN /\ run' = [ run EXCEPT !.pc = "done" ]
                   /\ UNCHANGED gen
              ELSE /\ run' = [ run EXCEPT !.pc = "pack",
                                          !.inlist = utils_list_files(tree) ]
                   /\ gen' = [ prefix |-> flat_date(now), index |-> 0 ]
    /\ sync' = NoSync
    /\ UNCHANGED <<s3vars, ids, cache, held, tree, minsize, now, last, audit>>

\* A flush of create_tars: filenamegen.next() and create_tar; `after` is the
\* state of the locals when it returned.
Flush(data, after) ==
    \E res \in create_tar(remote, files, cache, dry_run, data,
                          FormatName(gen.prefix, gen.index), audit.storageclass) :
       /\ remote' = res.remote
       /\ files' = res.files
       /\ cache' = res.cache
       /\ sessionUp' = sessionUp \cup res.up
       /\ gen' = [ gen EXCEPT !.index = @ + 1 ]
       /\ ids' = Append(ids, FormatName(gen.prefix, gen.index))
       /\ CASE res.status = "ok" -> run' = after
            [] res.status = "exists" -> run' = [ run EXCEPT !.pc = "failed" ]
            [] res.status = "error" -> Fault(run)

\* One pass of the loop of create_tars over inlist, with the flush it may end
\* in.
PackFile ==
    /\ run.pc = "pack"
    /\ run.pos <= Len(run.inlist)
    /\ LET file == run.inlist[run.pos]
           fileentry == FileEntry_gen(tree, file)
           data == Append(run.tardb, fileentry)
           size == run.size + fileentry.size
           added == [ run EXCEPT !.pos = @ + 1, !.totalwritten = @ + 1,
                                 !.tardb = data, !.size = size ]
       IN  \/ \* FileEntry.gen raised: the file cannot be read
              /\ Fault(run)
              /\ UNCHANGED <<remote, files, cache, sessionUp, gen, ids>>
           \/ /\ Skips(db, fileentry)
              /\ run' = [ run EXCEPT !.pos = @ + 1, !.totalskip = @ + 1 ]
              /\ UNCHANGED <<remote, files, cache, sessionUp, gen, ids>>
           \/ /\ ~Skips(db, fileentry)
              /\ ~Flushes(size, minsize)
              /\ run' = added
              /\ UNCHANGED <<remote, files, cache, sessionUp, gen, ids>>
           \/ /\ ~Skips(db, fileentry)
              /\ Flushes(size, minsize)
              /\ Flush(data, [ added EXCEPT !.tardb = << >>, !.size = 0 ])
    /\ UNCHANGED <<listed, dry_run, lastCall, progress, remote0, db, dbStatus, syncvars,
                   tree, minsize, now, last, audit>>

\* The end of create_tars: the last archive, if any file is left for it.
PackLast ==
    /\ run.pc = "pack"
    /\ run.pos > Len(run.inlist)
    /\ IF LastArchive(run.tardb)
       THEN Flush(run.tardb, [ run EXCEPT !.pc = "report" ])
       ELSE /\ run' = [ run EXCEPT !.pc = "report" ]
            /\ UNCHANGED <<remote, files, cache, sessionUp, gen, ids>>
    /\ UNCHANGED <<listed, dry_run, lastCall, progress, remote0, db, dbStatus, syncvars,
                   tree, minsize, now, last, audit>>

\* The names of the entries of a manifest, each at its first place.
RECURSIVE FirstOf(_)
FirstOf(q) ==
    IF q = << >> THEN << >>
    ELSE << Head(q) >> \o FirstOf(SelectSeq(Tail(q), LAMBDA n : n # Head(q)))

\* The names of a database in the order its dict holds them: the order in
\* which read_database first met them.
RECURSIVE FirstSeen(_, _, _)
FirstSeen(seen, dbfiles, dir) ==
    IF dbfiles = << >> THEN seen
    ELSE LET data == dir[Head(dbfiles)].body.data
             names == [ i \in 1..Len(data) |-> data[i].name ]
         IN  FirstSeen(FirstOf(seen \o names), Tail(dbfiles), dir)

\* The tail of main(): when files were written, the database is read again
\* and generate_CSV uploads the report.
RunReport ==
    /\ run.pc = "report"
    /\ IF run.totalwritten > 0
       THEN LET r == read_database(cache)
                dbfiles == SortedSeq({ f \in DOMAIN cache : EndsWith(f, ExtJson) })
                csv == Body("csv", 0, CsvRows(r.db, FirstSeen(<< >>, dbfiles, cache)))
                csvname == flat_date(now) \o ExtCsv
            IN  /\ db' = r.db
                /\ dbStatus' = r.status
                /\ IF r.status # "ok"
                   THEN /\ run' = [ run EXCEPT !.pc = "failed" ]
                        /\ UNCHANGED <<remote, files, sessionUp>>
                   ELSE \E o \in UploadOutcomes(files, dry_run, ReportDir, csvname) :
                          /\ remote' = RemoteAfterUpload(remote, ReportDir, csvname,
                                          STANDARD, csv, Multipart(csv), o)
                          /\ files' = FilesAfterUpload(files, csvname, o)
                          /\ sessionUp' = sessionUp \cup Sent(ReportDir, csvname, o)
                          /\ CASE o \in { "ok", "dry" } ->
                                    run' = [ run EXCEPT !.pc = "done" ]
                               [] o = "exists" -> run' = [ run EXCEPT !.pc = "failed" ]
                               [] o = "error" -> Fault(run)
       ELSE /\ run' = [ run EXCEPT !.pc = "done" ]
            /\ UNCHANGED <<remote, files, sessionUp, db, dbStatus>>
    /\ UNCHANGED <<listed, dry_run, lastCall, progress, remote0, genvars, cache, syncvars,
                   tree, minsize, now, last, audit>>

Next ==
    \/ RunStart
    \/ RunCheck
    \/ RunSync
    \/ RunSyncFailed
    \/ RunRead
    \/ PackFile
    \/ PackLast
    \/ RunReport

Spec == Init /\ [][Next]_vars

(***************************************************************************)
(* One run over a bucket that holds objects already, by either script      *)
(***************************************************************************)

\* simple-uploader.py: remoteCheck(s3) lists the remote and raises at a
\* manifest without its archive, which ends the script.
UploaderCheck ==
    /\ run.pc = "check"
    /\ audit.script = "uploader"
    /\ \/ /\ files' = list_files(remote)
          /\ listed' = TRUE
          /\ audit' = [ audit EXCEPT !.ran = TRUE ]
          /\ run' = [ run EXCEPT !.pc = IF remoteCheck(list_files(remote)) = "ok"
                                        THEN "sync" ELSE "failed" ]
       \/ /\ Fault(run)
          /\ UNCHANGED <<files, listed, audit>>
    /\ UNCHANGED <<remote, dry_run, lastCall, progress, remote0, sessionUp, genvars, dbvars,
                   syncvars, tree, minsize, now, last>>

\* simple-uploader.py after its download_dir: readDatabase and createTars,
\* which are not followed.
UploaderRest ==
    /\ run.pc = "sync"
    /\ sync.pc = "done"
    /\ audit.script = "uploader"
    /\ run' = [ run EXCEPT !.pc = "rest" ]
    /\ sync' = NoSync
    /\ UNCHANGED <<s3vars, genvars, dbvars, held, tree, minsize, now, last, audit>>

XJson == DbDir \o Slash \o << "x" >> \o ExtJson
XTar == DataDir \o Slash \o << "x" >> \o ExtTar
YJson == DbDir \o Slash \o << "y" >> \o ExtJson
OldReport == ReportDir \o Slash \o << "0", "0" >> \o ExtCsv
Stray == << "x" >>

\* An object of the bucket in the class cls.
Stored(cls, body) == [ cls |-> cls, body |-> body, multipart |-> FALSE ]

\* An object in the class cls for which a restore was asked: in progress, or
\* done with the copy kept until a date.
Restoring(cls, body) ==
    [ cls |-> cls, body |-> body, multipart |-> FALSE,
      RestoreStatus |-> [ IsRestoreInProgress |-> TRUE, RestoreExpiryDate |-> "" ] ]

Restored(cls, body) ==
    [ cls |-> cls, body |-> body, multipart |-> FALSE,
      RestoreStatus |-> [ IsRestoreInProgress |-> FALSE,
                          RestoreExpiryDate |-> "2026-01-01" ] ]

\* The buckets of the audit model: each key absent or holding one of a few
\* objects.
AuditRemotes ==
    LET choice ==
          [ k \in { XJson, XTar, YJson, OldReport, Stray } |->
              IF k = XJson THEN { Stored(STANDARD, ManifestA) }
              ELSE IF k = XTar
              THEN { Stored(ColdClass, Body("tar", 0, ManifestA.data)),
                     Stored(STANDARD, Body("tar", 0, ManifestA.data)),
                     Restoring(ColdClass, Body("tar", 0, ManifestA.data)),
                     Restored(ColdClass, Body("tar", 0, ManifestA.data)) }
              ELSE IF k = YJson THEN { Stored(STANDARD, ManifestEmpty) }
              ELSE IF k = OldReport THEN { Stored(STANDARD, Body("csv", 0, << >>)) }
              ELSE { Stored(STANDARD, Body("junk", 0, << >>)) } ]
    IN  UNION { { r \in [ K -> UNION { choice[k] : k \in K } ] :
                    \A k \in K : r[k] \in choice[k] } : K \in SUBSET DOMAIN choice }

\* The script run, its --verify and its --class, with what list_versions and
\* get_bucket_configuration find beside the current objects.
AuditArgs ==
    { NoAudit, [ NoAudit EXCEPT !.script = "uploader" ],
      [ NoAudit EXCEPT !.storageclass = "GLACIER" ] }
        \cup { [ NoAudit EXCEPT !.verify = TRUE, !.outdated = v[1], !.config = v[2] ] :
                 v \in { << {}, GoodConfig >>, << { XJson }, GoodConfig >>,
                         << { XTar, Stray }, TagConfig >>, << {}, NoConfig >> } }

\* The runs before this one are not followed.
AuditInit ==
    /\ remote \in AuditRemotes
    /\ remote0 = remote
    /\ files = << >>
    /\ listed = FALSE
    /\ dry_run = FALSE
    /\ lastCall = NoCall
    /\ progress = NoProgress
    /\ sessionUp = {}
    /\ GenIdle
    /\ DbIdle
    /\ SyncIdle
    /\ tree = << >>
    /\ minsize = 0
    /\ now = 0
    /\ run = [ NoRun EXCEPT !.count = MaxRuns - 1 ]
    /\ last = NoLast
    /\ audit \in AuditArgs

AuditNext ==
    \/ RunStart
    \/ RunCheck
    \/ UploaderCheck
    \/ RunSync
    \/ RunSyncFailed
    \/ RunRead
    \/ UploaderRest
    \/ PackFile
    \/ PackLast
    \/ RunReport

SpecAudit == AuditInit /\ [][AuditNext]_vars

(***************************************************************************)
(* The bucket configuration checks applied to any configuration            *)
(***************************************************************************)

MaxRules == 2

\* The rules a bucket may hold: enabled or not; with no filter, a Prefix
\* that covers the URL's prefix, one that does not, a tag, or both a Prefix
\* and a tag; with or without the two expirations.
Rules ==
    { Rule(status, filter, nve, aimu) :
        status \in { "Enabled", "Disabled" },
        filter \in { Filter({}, << >>), Filter({ "Prefix" }, << "p" >>),
                     Filter({ "Prefix" }, << "p", "/", "x" >>),
                     Filter({ "Tag" }, << >>), Filter({ "Prefix", "Tag" }, << "p" >>) },
        nve \in { Days(K, NveKeys) : K \in SUBSET NveKeys },
        aimu \in { Days(K, AimuKeys) : K \in SUBSET AimuKeys } }

\* A public access block: none, or one that holds some of the flags, each
\* true or false.
Pabs ==
    { Pab(FALSE, {}, {}) }
        \cup { Pab(TRUE, K, T) : K \in SUBSET PabFlags, T \in SUBSET PabFlags }

\* The configurations get_bucket_configuration may return: any list of
\* rules with every flag of the block true, or any block with one rule at
\* most.
Configs ==
    { [ versioning |-> v, lifecycle |-> l, public_access_block |-> b ] :
        v \in { "Enabled", "Suspended" },
        l \in UNION { [ 1..n -> Rules ] : n \in 0..MaxRules },
        b \in { Pab(TRUE, PabFlags, PabFlags) } }
      \cup
    { [ versioning |-> v, lifecycle |-> l, public_access_block |-> b ] :
        v \in { "Enabled", "Suspended" },
        l \in UNION { [ 1..n -> Rules ] : n \in 0..1 },
        b \in { b \in Pabs : b.val = [ k \in PabFlags |-> k \in b.keys /\ b.val[k] ] } }

ConfigInit ==
    /\ S3Idle
    /\ GenIdle
    /\ DbIdle
    /\ SyncIdle
    /\ tree = << >>
    /\ minsize = 0
    /\ now = 0
    /\ run = NoRun
    /\ last = NoLast
    /\ audit \in { [ NoAudit EXCEPT !.verify = TRUE, !.config = c ] : c \in Configs }

\* remote_check_bucket_configuration(s3) is called.
ConfigCheck ==
    /\ run.pc = "idle"
    /\ LET t == remote_check_bucket_configuration(UrlPrefix, audit.config)
       IN  audit' = [ audit EXCEPT !.ran = TRUE, !.warnings = t.warnings,
                                   !.errors = t.errors ]
    /\ run' = [ run EXCEPT !.pc = "config" ]
    /\ UNCHANGED <<s3vars, genvars, dbvars, syncvars, tree, minsize, now, last>>

\* remote_check_bucket_configuration_lifecycle(s3, config) is called, for a
\* bucket with versioning enabled.
LifecycleCheck ==
    /\ run.pc = "idle"
    /\ audit.config.versioning = "Enabled"
    /\ LET t == remote_check_bucket_configuration_lifecycle(UrlPrefix, audit.config)
       IN  audit' = [ audit EXCEPT !.ran = TRUE, !.warnings = t.warnings,
                                   !.errors = t.errors ]
    /\ run' = [ run EXCEPT !.pc = "lifecycle" ]
    /\ UNCHANGED <<s3vars, genvars, dbvars, syncvars, tree, minsize, now, last>>

ConfigNext ==
    \/ ConfigCheck
    \/ LifecycleCheck

SpecConfig == ConfigInit /\ [][ConfigNext]_vars

(***************************************************************************)
(* Properties of the runs                                                  *)
(***************************************************************************)

\* The ids of the manifests, and of the archives, among a set of keys.
ManifestIds(keys) ==
    { RemoveSuffix(RemovePrefix(k, DbDir \o Slash), ExtJson) :
        k \in { k \in keys : StartsWith(k, DbDir \o Slash) /\ EndsWith(k, ExtJson) } }

ArchiveIds(keys) ==
    { RemoveSuffix(RemovePrefix(k, DataDir \o Slash), ExtTar) :
        k \in { k \in keys : StartsWith(k, DataDir \o Slash) /\ EndsWith(k, ExtTar) } }

ManifestKey(id) == DbDir \o Slash \o id \o ExtJson
ArchiveKey(id) == DataDir \o Slash \o id \o ExtTar

\* The entries of the manifest id on the remote.
ManifestData(id) == remote[ManifestKey(id)].body.data

\* Every run so far started in a second of its own.
SecondsApart == now = run.count

\* C2: in every reachable state, whatever step of a flush failed, every
\* db/<id>.json on the remote has its data/<id>.tar on the remote (I1), the
\* remote of the first run being empty.
C2_ManifestHasArchive ==
    ManifestIds(DOMAIN remote) \subseteq ArchiveIds(DOMAIN remote)

\* A run failed between the upload of an archive and the upload of its
\* manifest, after a complete pair was uploaded.
C2_Witness ==
    /\ run.pc = "failed"
    /\ ManifestIds(sessionUp) # {}
    /\ ArchiveIds(sessionUp) \ ManifestIds(sessionUp) # {}

\* The places (manifest, position) where the manifests uploaded in this run
\* hold an entry for name n.
Holders(n) ==
    { p \in UNION { { << id, i >> : i \in 1..Len(ManifestData(id)) }
                    : id \in ManifestIds(sessionUp) } :
        ManifestData(p[1])[p[2]].name = n }

IntoEmptyRemote ==
    /\ run.pc = "done"
    /\ run.indir
    /\ ~dry_run
    /\ remote0 = << >>

\* C3: a backup run into an empty remote that completes uploads
\* archive+manifest pairs whose manifests hold each name of list_files(T) in
\* exactly one manifest exactly once, and no other name.
C3_Bijection ==
    IntoEmptyRemote =>
        /\ ManifestIds(sessionUp) = ArchiveIds(sessionUp)
        /\ \A n \in FileNames \cup DOMAIN tree :
              Cardinality(Holders(n)) =
                 IF \E i \in 1..Len(run.inlist) : run.inlist[i] = n THEN 1 ELSE 0
        /\ \A id \in ManifestIds(sessionUp) : \A i \in 1..Len(ManifestData(id)) :
              \E j \in 1..Len(run.inlist) : ManifestData(id)[i].name = run.inlist[j]

\* A completed run into an empty remote that uploaded two pairs for a tree
\* of two files.
C3_Witness ==
    /\ IntoEmptyRemote
    /\ Len(run.inlist) = 2
    /\ Cardinality(ManifestIds(sessionUp)) = 2

\* C3 again with one manifest of two entries.
C3_WitnessOneArchive ==
    /\ IntoEmptyRemote
    /\ Len(run.inlist) = 2
    /\ Cardinality(ManifestIds(sessionUp)) = 1

\* Trees with the same names and, name by name, the same content.
SameContent(t, u) ==
    /\ DOMAIN t = DOMAIN u
    /\ \A n \in DOMAIN t : t[n].sha = u[n].sha

\* This run is a backup over the tree of the completed backup before it, with
\* no content changed.
Rerun ==
    /\ last.ok
    /\ run.indir
    /\ SameContent(tree, last.tree)

SkipsAll ==
    /\ ArchiveIds(sessionUp) = {}
    /\ ManifestIds(sessionUp) = {}
    /\ run.totalwritten = 0
    /\ run.pc \in { "report", "done" } => run.totalskip = Len(run.inlist)

\* C4: after a completed (non dry-run) backup of T, a second run over T with
\* every content hash unchanged skips every file and uploads no archive and
\* no manifest.
C4_SecondRunSkipsAll == Rerun => SkipsAll

\* C4 for runs that each started in a second of their own.
C4_SkipsAllSecondsApart == (Rerun /\ SecondsApart) => SkipsAll

\* A rerun over a touched tree (same content, another mtime) that skipped
\* its files.
C4_WitnessSecondsApart ==
    /\ Rerun
    /\ SecondsApart
    /\ run.pc = "done"
    /\ run.totalskip = 2
    /\ tree # last.tree

\* The names whose content differs between two trees.
Changed(t, u) == { n \in DOMAIN t \cap DOMAIN u : t[n].sha # u[n].sha }

\* This run is a completed backup over the tree of the completed backup
\* before it, with the content of exactly one file changed.
OneChanged ==
    /\ last.ok
    /\ run.indir
    /\ ~dry_run
    /\ run.pc = "done"
    /\ DOMAIN tree = DOMAIN last.tree
    /\ Cardinality(Changed(tree, last.tree)) = 1

OneNewArchive ==
    LET f == CHOOSE n \in Changed(tree, last.tree) : TRUE
    IN  /\ Cardinality(ArchiveIds(sessionUp)) = 1
        /\ ManifestIds(sessionUp) = ArchiveIds(sessionUp)
        /\ \A id \in ManifestIds(sessionUp) :
              /\ ArchiveKey(id) \notin DOMAIN remote0
              /\ ManifestKey(id) \notin DOMAIN remote0
              /\ Len(ManifestData(id)) = 1
              /\ ManifestData(id)[1].name = f
              /\ ManifestData(id)[1].sha = tree[f].sha
              /\ f \in DOMAIN db
              /\ db[f].sha = tree[f].sha
              /\ db[f].db = id \o ExtJson
              /\ Len(db[f].alt) >= 1
              /\ db[f].alt[1].sha = last.tree[f].sha
              /\ db[f].alt[1].db # db[f].db

\* C5: if exactly one file f of a previously backed-up tree has new content,
\* the second run uploads exactly one new archive whose manifest has exactly
\* one entry, for f, and the re-read database's current entry for f is the
\* new one, owned by the new manifest, with the old entry first in alt.
C5_OneNewArchive == OneChanged => OneNewArchive

\* C5 for runs that each started in a second of their own.
C5_OneNewArchiveSecondsApart == (OneChanged /\ SecondsApart) => OneNewArchive

C5_WitnessSecondsApart ==
    /\ OneChanged
    /\ SecondsApart
    /\ Cardinality(DOMAIN tree) = 2

(***************************************************************************)
(* Properties of the remote check                                          *)
(***************************************************************************)

\* serac.py made its remote check, over the bucket as remote0 has it.
Audited(verify) == audit.ran /\ audit.script = "serac" /\ audit.verify = verify

\* C12: without --verify, the error tally of remote_check is the number of
\* keys db/<id>.json for which data/<id>.tar is not a key of the bucket.
C12_ErrorTally ==
    Audited(FALSE) =>
        audit.errors = Cardinality(ManifestIds(DOMAIN remote0)
                                      \ ArchiveIds(DOMAIN remote0))

\* A bucket holding db/x.json alone gives 1 error and 0 warnings.
C12_Witness ==
    /\ Audited(FALSE)
    /\ DOMAIN remote0 = { XJson }
    /\ audit.errors = 1
    /\ audit.warnings = 0

\* The keys of a bucket that are db/*.json, data/*.tar, report/*.csv.
Expected(r) ==
    { k \in DOMAIN r :
        \/ StartsWith(k, DbDir \o Slash) /\ EndsWith(k, ExtJson)
        \/ StartsWith(k, DataDir \o Slash) /\ EndsWith(k, ExtTar)
        \/ StartsWith(k, ReportDir \o Slash) /\ EndsWith(k, ExtCsv) }

\* The warnings the listing of a bucket calls for: the archives without
\* manifest, the archives out of the cold class, the keys not expected.
ListingWarnings(r) ==
    Cardinality(ArchiveIds(DOMAIN r) \ ManifestIds(DOMAIN r))
      + Cardinality({ id \in ArchiveIds(DOMAIN r) : r[ArchiveKey(id)].cls # audit.storageclass })
      + Cardinality(DOMAIN r \ Expected(r))

\* The enabled rules of a configuration whose filter is more than a Prefix.
TooElaborate(config) ==
    IF config.versioning # "Enabled" THEN {}
    ELSE { i \in DOMAIN config.lifecycle :
             /\ config.lifecycle[i].Status = "Enabled"
             /\ config.lifecycle[i].Filter.keys \notin { {}, { "Prefix" } } }

\* C13: without --verify the warning tally of remote_check is the number of
\* archives without manifest, plus the number of archives whose class is not
\* the cold class, plus the number of keys that are none of db/*.json,
\* data/*.tar, report/*.csv (the reports add nothing); with --verify it
\* counts, on top of these, one warning per key with a noncurrent version
\* (and one per lifecycle rule whose filter is too elaborate).
C13_WarningTally ==
    /\ Audited(FALSE) => audit.warnings = ListingWarnings(remote0)
    /\ Audited(TRUE) =>
         audit.warnings = ListingWarnings(remote0) + Cardinality(audit.outdated)
                             + Cardinality(TooElaborate(audit.config))

\* An archive in STANDARD without its manifest, beside a report and a stray
\* key: 3 warnings.
C13_Witness ==
    /\ Audited(FALSE)
    /\ DOMAIN remote0 = { XTar, OldReport, Stray }
    /\ remote0[XTar].cls = STANDARD
    /\ audit.warnings = 3
    /\ audit.errors = 0

\* C13 for the buckets in which no archive has a restore status.
C13_WarningTallyNoRestore ==
    (\A id \in ArchiveIds(DOMAIN remote0) :
        "RestoreStatus" \notin DOMAIN remote0[ArchiveKey(id)])
      => C13_WarningTally

\* With --verify, two keys with noncurrent versions add two warnings.
C13_WitnessVerify ==
    /\ Audited(TRUE)
    /\ Cardinality(audit.outdated) = 2
    /\ audit.warnings = ListingWarnings(remote0) + 3

\* C14: whatever the remote check finds, manifests without archive
\* included, the run goes on from the check to the sync of the manifests.
C14_FindingsNeverAbort ==
    [][ (run.pc = "check" /\ audit'.ran) => run'.pc = "sync" ]_vars

\* C14 for serac.py alone: its main() goes on to download_dir whatever the
\* tallies of remote_check.
C14_SeracGoesOn ==
    [][ (run.pc = "check" /\ audit'.ran /\ audit.script = "serac")
          => run'.pc = "sync" ]_vars

\* serac.py reaches the pack step after a remote check that counted errors.
C14_SeracPacksAfterErrors ==
    Audited(FALSE) /\ audit.errors > 0 /\ run.pc = "pack"

\* A run that ended with nothing to back up: no input directory, an empty
\* tree, or every file skipped.
NothingToBackUp ==
    /\ run.pc = "done"
    /\ \/ ~run.indir
       \/ run.inlist = << >>
       \/ run.totalskip = Len(run.inlist)

\* C18: a run without input directory, over an empty tree, or that skipped
\* every file has made the remote check and the sync of the manifests (the
\* run leaves the sync only when download_dir returned) and has uploaded no
\* object: the remote is as it was when the run started.
C18_NothingUploaded ==
    /\ [](NothingToBackUp => audit.ran /\ sessionUp = {} /\ remote = remote0)
    /\ [][ (run.pc = "sync" /\ run'.pc \in { "pack", "done" }) => sync.pc = "done" ]_vars

\* A run over a tree of two files that skipped both.
C18_Witness ==
    /\ NothingToBackUp
    /\ run.indir
    /\ Len(run.inlist) = 2
    /\ audit.ran
    /\ listed

\* A run without input directory, and one over an empty tree.
C18_WitnessNoInput == NothingToBackUp /\ ~run.indir /\ audit.ran /\ remote # << >>

C18_WitnessEmptyTree ==
    NothingToBackUp /\ run.indir /\ run.inlist = << >> /\ audit.ran /\ remote # << >>

(***************************************************************************)
(* Properties of the report                                                *)
(***************************************************************************)

\* The report of this run is on the remote.
ReportKey == ReportDir \o Slash \o flat_date(now) \o ExtCsv

Reported ==
    /\ run.pc = "done"
    /\ run.totalwritten > 0
    /\ ~dry_run
    /\ ReportKey \in sessionUp

ReportRows == remote[ReportKey].body.data

\* The entries of the manifests read_database loaded: the manifest file and
\* the place of the entry in its list.
LoadedEntries ==
    UNION { { << f, i >> : i \in DOMAIN cache[f].body.data } :
              f \in { f \in DOMAIN cache : EndsWith(f, ExtJson) } }

\* The row an entry of a manifest is to have: the archive named after the
\* manifest, and the fields of the entry.
RowOf(p) ==
    LET e == cache[p[1]].body.data[p[2]]
    IN  [ tarname |-> RemoveSuffix(p[1], ExtJson) \o ExtTar, name |-> e.name,
          size |-> e.size, modified |-> e.modified, sha |-> e.sha ]

Applies(rule) ==
    /\ rule.Status = "Enabled"
    /\ \/ rule.Filter.keys = {}
       \/ rule.Filter.keys = { "Prefix" } /\ StartsWith(UrlPrefix, rule.Filter.Prefix)

\* A rule with NoncurrentDays and no keep-count; one with DaysAfterInitiation.
ExpiresNoncurrent(rule) ==
    /\ "NoncurrentDays" \in rule.NoncurrentVersionExpiration.keys
    /\ "NewerNoncurrentVersions" \notin rule.NoncurrentVersionExpiration.keys

AbortsMultipart(rule) ==
    "DaysAfterInitiation" \in rule.AbortIncompleteMultipartUpload.keys

\* The lifecycle errors a configuration calls for: one when no applicable
\* rule expires noncurrent versions, one when none aborts multipart uploads.
LifecycleErrors(config) ==
    (IF \E i \in DOMAIN config.lifecycle :
           Applies(config.lifecycle[i]) /\ ExpiresNoncurrent(config.lifecycle[i])
     THEN 0 ELSE 1)
      + (IF \E i \in DOMAIN config.lifecycle :
              Applies(config.lifecycle[i]) /\ AbortsMultipart(config.lifecycle[i])
         THEN 0 ELSE 1)

\* C19: with versioning Enabled the lifecycle check gives one error exactly
\* when no enabled rule, with an empty filter or a lone Prefix that is a
\* prefix of the URL's prefix, has NoncurrentDays without a keep-count, and
\* one error exactly when no such rule has DaysAfterInitiation; when
\* versioning is not Enabled the configuration check gives no lifecycle
\* error (its errors are those of the public access block alone).
C19_LifecycleErrors ==
    /\ run.pc = "lifecycle" => audit.errors = LifecycleErrors(audit.config)
    /\ run.pc = "config" =>
         audit.errors =
             PublicAccessBlockErrors(audit.config.public_access_block)
               + (IF audit.config.versioning = "Enabled"
                  THEN LifecycleErrors(audit.config) ELSE 0)

\* Two rules: one keeps noncurrent versions and is passed over, the other
\* is disabled; both errors are given.
C19_Witness ==
    /\ run.pc = "lifecycle"
    /\ Len(audit.config.lifecycle) = 2
    /\ Applies(audit.config.lifecycle[1])
    /\ audit.config.lifecycle[1].NoncurrentVersionExpiration.keys = NveKeys
    /\ audit.config.lifecycle[2].Status = "Disabled"
    /\ audit.errors = 2

\* Versioning is suspended and no rule is there: no error.
C19_WitnessSuspended ==
    /\ run.pc = "config"
    /\ audit.config.versioning = "Suspended"
    /\ audit.config.lifecycle = << >>
    /\ audit.errors = 0

\* The flags of the public access block are all there and all true.
AllFlagsTrue(pab) ==
    /\ pab.present
    /\ pab.keys = PabFlags
    /\ \A k \in PabFlags : pab.val[k]

\* C20: the public access block check gives no error if and only if the
\* block is there with its four flags present and true (seen where the
\* lifecycle check is not made, so that every error is one of the block).
C20_ZeroErrorsIffAllFlagsTrue ==
    (run.pc = "config" /\ audit.config.versioning # "Enabled")
        => (audit.errors = 0 <=> AllFlagsTrue(audit.config.public_access_block))

\* C20 for the blocks that hold all four flags, or none at all.
C20_ZeroErrorsIffAllTrueWhenPresent ==
    (/\ run.pc = "config"
     /\ audit.config.versioning # "Enabled"
     /\ audit.config.public_access_block.keys \in { {}, PabFlags })
        => (audit.errors = 0 <=> AllFlagsTrue(audit.config.public_access_block))

(***************************************************************************)
(* Properties of the uploads of a run                                      *)
(***************************************************************************)

\* The keys a step put on the remote, or put anew.
Written == { k \in DOMAIN remote' : k \notin DOMAIN remote \/ remote'[k] # remote[k] }

\* C21: every object a step uploads under data/ is stored in the class given
\* with --class, and every object it uploads under db/ or report/ is stored
\* in STANDARD, whatever that class.
C21_UploadClasses ==
    [][ \A k \in Written :
          /\ StartsWith(k, DataDir \o Slash) => remote'[k].cls = audit.storageclass
          /\ (StartsWith(k, DbDir \o Slash) \/ StartsWith(k, ReportDir \o Slash))
               => remote'[k].cls = STANDARD ]_vars

\* A run with --class GLACIER that uploaded an archive, its manifest and the
\* report.
C21_Witness ==
    /\ run.pc = "done"
    /\ audit.storageclass = "GLACIER"
    /\ ReportKey \in sessionUp
    /\ remote[ReportKey].cls = STANDARD
    /\ \E id \in ManifestIds(sessionUp) :
         /\ ArchiveKey(id) \in sessionUp
         /\ remote[ArchiveKey(id)].cls = "GLACIER"
         /\ remote[ManifestKey(id)].cls = STANDARD

\* The total size of the entries of an archive.
RECURSIVE TotalSize(_)
TotalSize(data) ==
    IF data = << >> THEN 0 ELSE Head(data).size + TotalSize(Tail(data))

\* The entries of the i-th archive of this run, once it is on the remote.
Flushed(i) == ArchiveKey(ids[i]) \in sessionUp

ArchiveData(i) == remote[ArchiveKey(ids[i])].body.data

\* The i-th archive is the one made after the loop over inlist.
IsLastArchive(i) == i = Len(ids) /\ run.pos > Len(run.inlist)

\* C22: of the archives a run has uploaded none is empty, each without its
\* last entry is of size <= minsize, and each but the one made after the
\* loop is of size > minsize; a tree of one file larger than minsize that is
\* not skipped gives exactly one archive, holding that file.
C22_Batching ==
    /\ \A i \in DOMAIN ids :
         Flushed(i) =>
           /\ ArchiveData(i) # << >>
           /\ TotalSize(SubSeq(ArchiveData(i), 1, Len(ArchiveData(i)) - 1)) <= minsize
           /\ TotalSize(ArchiveData(i)) > minsize \/ IsLastArchive(i)
    /\ (/\ run.pc = "done"
        /\ ~dry_run
        /\ Len(run.inlist) = 1
        /\ run.totalwritten = 1
        /\ FileEntry_gen(tree, run.inlist[1]).size > minsize)
         => /\ Len(ids) = 1
            /\ ArchiveIds(sessionUp) = { ids[1] }
            /\ ArchiveData(1) = << FileEntry_gen(tree, run.inlist[1]) >>

\* A run that flushed one archive in the loop and made a last one that is
\* not larger than minsize.
C22_Witness ==
    /\ run.pc = "done"
    /\ Len(ids) = 2
    /\ Flushed(1)
    /\ Flushed(2)
    /\ TotalSize(ArchiveData(1)) > minsize
    /\ TotalSize(ArchiveData(2)) <= minsize

\* A run that put two files into one archive; a run over one large file.
C22_WitnessTwoFiles ==
    run.pc = "done" /\ Len(ids) = 1 /\ Flushed(1) /\ Len(ArchiveData(1)) = 2

C22_WitnessOneLargeFile ==
    /\ run.pc = "done"
    /\ ~dry_run
    /\ Len(run.inlist) = 1
    /\ run.totalwritten = 1
    /\ FileEntry_gen(tree, run.inlist[1]).size > minsize
    /\ minsize > 0

\* FileEntry.gen raises for the file the loop of create_tars is at: the
\* step ends the run without a call of create_tar.
GenFails ==
    /\ run.pc = "pack"
    /\ run.pos <= Len(run.inlist)
    /\ run'.pc = "failed"
    /\ ids' = ids

\* The names the manifests a run has uploaded hold.
UploadedNames(up, r) ==
    UNION { { r[ManifestKey(id)].body.data[i].name
                : i \in DOMAIN r[ManifestKey(id)].body.data }
            : id \in ManifestIds(up) }

\* C23: when stat or digest fails for a file, the run ends at that file: the
\* step uploads nothing and leaves every object of the remote as it is, the
\* files of the batch not yet flushed are in no manifest the run uploaded,
\* and a run that has failed uploads nothing afterwards; a run that gets
\* through create_tars has passed over no file: each is skipped or is in
\* a manifest the run uploaded.
C23_AbortsAtFailedFile ==
    /\ [][ GenFails =>
             /\ remote' = remote
             /\ sessionUp' = sessionUp
             /\ cache' = cache
             /\ \A i \in DOMAIN run.tardb :
                  run.tardb[i].name \notin UploadedNames(sessionUp', remote') ]_vars
    /\ [][ run.pc = "failed" => remote' = remote ]_vars
    /\ [](run.pc \in { "report", "done" } /\ run.indir =>
            /\ run.totalwritten + run.totalskip = Len(run.inlist)
            /\ ~dry_run => Cardinality(UploadedNames(sessionUp, remote))
                              = run.totalwritten)

\* The run failed at its third file, after it flushed the first with its
\* manifest and put the second in the next batch.
C23_Witness ==
    /\ run.pc = "failed"
    /\ run.pos = 3
    /\ Len(run.inlist) = 3
    /\ Len(run.tardb) = 1
    /\ Len(ids) = 1
    /\ { ArchiveKey(ids[1]), ManifestKey(ids[1]) } \subseteq sessionUp
    /\ UploadedNames(sessionUp, remote) = { run.inlist[1] }

(***************************************************************************)
(* Properties of the remote check: restored archives                       *)
(***************************************************************************)

\* Every archive of the bucket is in the class given with --class.
AllArchivesInClass(r) ==
    \A id \in ArchiveIds(DOMAIN r) : r[ArchiveKey(id)].cls = audit.storageclass

\* C25: an archive whose class on the remote is the class given with
\* --class brings no storage class warning, whatever its restore status:
\* when every archive is in that class the warnings are those for archives
\* without manifest and for keys not expected.
C25_RestoreStatusNoWarning ==
    (Audited(FALSE) /\ AllArchivesInClass(remote0)) =>
        audit.warnings =
            Cardinality(ArchiveIds(DOMAIN remote0) \ ManifestIds(DOMAIN remote0))
              + Cardinality(DOMAIN remote0 \ Expected(remote0))

\* C25 for buckets in which no archive has a restore status.
C25_NoWarningUnlessRestore ==
    (/\ Audited(FALSE)
     /\ AllArchivesInClass(remote0)
     /\ \A id \in ArchiveIds(DOMAIN remote0) :
           "RestoreStatus" \notin DOMAIN remote0[ArchiveKey(id)])
      => audit.warnings =
            Cardinality(ArchiveIds(DOMAIN remote0) \ ManifestIds(DOMAIN remote0))
              + Cardinality(DOMAIN remote0 \ Expected(remote0))

(***************************************************************************)
(* Properties of a dry run and of the run after a failed one               *)
(***************************************************************************)

\* The manifests of a cache directory that read_database reads.
CacheManifests(dir) == { f \in DOMAIN dir : EndsWith(f, ExtJson) }

\* The cache directory holds only manifests that the remote holds.
OnlyRemoteManifests ==
    \A f \in CacheManifests(cache) : KeyOf(DbDir, f) \in DOMAIN remote

\* C27: a backup with --dry-run leaves the cache directory as the sync left
\* it: no step of create_tars or of the report changes it.
C27_DryRunLeavesCache ==
    [][ (dry_run /\ run.pc \in { "pack", "report" }) => cache' = cache ]_vars

\* C27, its consequence: when a backup with --dry-run has ended, the cache
\* directory holds only manifests that the remote holds.
C27_DryRunOnlyRemoteManifests ==
    (dry_run /\ run.indir /\ run.pc = "done") => OnlyRemoteManifests

\* The part of C27 the code keeps: a backup with --dry-run leaves the remote
\* as it was.
C27_DryRunLeavesRemote ==
    [][ (dry_run /\ run.pc \in { "pack", "report" }) => remote' = remote ]_vars

\* The file n of the tree is covered: a manifest on the remote holds an entry
\* for n with the file's sha, and the archive of that manifest is on the
\* remote.
Covered(n) ==
    \E id \in ManifestIds(DOMAIN remote) :
       /\ ArchiveKey(id) \in DOMAIN remote
       /\ \E i \in 1..Len(ManifestData(id)) :
             /\ ManifestData(id)[i].name = n
             /\ ManifestData(id)[i].sha = tree[n].sha

\* A backup that is not a dry run has completed, and the run before it, over
\* the same tree, failed.
Recovered ==
    /\ last.aborted
    /\ run.pc = "done"
    /\ run.indir
    /\ ~dry_run

\* C28: when the run after a failed run, over the same tree, completes,
\* every file of the tree is covered; and the database it read after its
\* sync came from manifests of the remote only.
C28_RecoveryCovers ==
    /\ Recovered => \A n \in DOMAIN tree : Covered(n)
    /\ (last.aborted /\ run.pc = "sync" /\ sync.pc = "done") => OnlyRemoteManifests

\* C28 for runs that each started in a second of their own.
C28_RecoveryCoversSecondsApart ==
    SecondsApart => C28_RecoveryCovers

\* A run completed after a run that failed between the upload of an archive
\* and the upload of its manifest: the archive is on the remote without its
\* manifest, the manifest of the failed run is in the cache directory under
\* a name ending in "~", and every file of the tree is covered.
C28_RecoveredAfterLostManifest ==
    /\ Recovered
    /\ SecondsApart
    /\ DOMAIN tree # {}
    /\ \A n \in DOMAIN tree : Covered(n)
    /\ \E id \in ArchiveIds(DOMAIN remote) \ ManifestIds(DOMAIN remote) :
          (id \o ExtJson \o Tilde) \in DOMAIN cache

====
